---------------------------- MODULE Spec2Model ----------------------------
(***************************************************************************)
(* Houndify Go SDK: Client.VoiceSearch, its streaming response decoder,    *)
(* the delivery goroutines it spawns (one per partial transcript), the     *)
(* goroutine that closes the partial-transcript channel, the consumer of   *)
(* that channel, and the Client's conversation state.                      *)
(*                                                                         *)
(* A response body is a byte stream.  It is modelled as a sequence of      *)
(* characters where the text of one JSON value is a single character       *)
(* (a name of the table Json below); the other characters are a space, a   *)
(* newline, a decimal digit and a character that belongs to no JSON text.  *)
(***************************************************************************)
EXTENDS Integers, Sequences, FiniteSets, TLC

(***************************************************************************)
(* Bounds of the model.                                                    *)
(***************************************************************************)
\* newline-terminated lines of a generated response body
MaxLines == 2

(***************************************************************************)
(* Characters and strings.                                                 *)
(***************************************************************************)
NL == "\n"
SP == " "
Digit == "7"
Junk == "x"

\* The response format identifiers VoiceSearch compares Format with.
FormatPartial == "HoundVoiceQueryPartialTranscript"
FormatPartialLegacy == "SoundHoundVoiceSearchParialTranscript"
FormatResult == "SoundHoundVoiceSearchResult"

\* An int64 value is written in base 10^9 as <<high, low>>: the value is
\* high * 10^9 + low (the model checker's integers are 32 bits wide).

\* The JSON texts that occur in response bodies, decoded: an object is a
\* function from its member names to their values.
Json ==
  [ PA |-> [Format |-> FormatPartial, PartialTranscript |-> "what",
            DurationMS |-> <<0, 500>>, Done |-> FALSE],
    PB |-> [Format |-> FormatPartialLegacy, PartialTranscript |-> "what time",
            DurationMS |-> <<0, 1200>>, Done |-> TRUE, SafeToStopAudio |-> TRUE],
    PX |-> [Format |-> FormatPartial, PartialTranscript |-> "what time is",
            DurationMS |-> <<9223, 372036855>>, Done |-> FALSE],
    T  |-> [Format |-> FormatResult, Status |-> "OK", NumToReturn |-> 1,
            AllResults |-> <<[WrittenResponseLong |-> "It is 3pm.",
                              ConversationState |-> "cs1"]>>],
    U  |-> [Format |-> "HoundQueryResultUpdate"],
    PW |-> [Format |-> FormatPartial, PartialTranscript |-> "what",
            DurationMS |-> <<0, 500>>, Done |-> FALSE],
    E  |-> [FormatVersion |-> "1.0"],
    TB |-> [Format |-> FormatResult, Status |-> "ok", NumToReturn |-> 1,
            AllResults |-> <<[WrittenResponseLong |-> "Noon.",
                              SpokenResponseLong |-> "It is noon.",
                              ConversationState |-> "cs2"]>>],
    TN |-> [Format |-> FormatResult, Status |-> "OK", NumToReturn |-> 1,
            AllResults |-> <<[WrittenResponseLong |-> "Hello."]>>],
    F  |-> [Format |-> FormatResult, Status |-> "Error", ErrorMessage |-> "bad query"],
    FN |-> [Format |-> FormatResult, Status |-> "Error"],
    N0 |-> [Format |-> FormatResult, Status |-> "OK", NumToReturn |-> 0,
            AllResults |-> <<>>],
    NM |-> [Format |-> FormatResult, Status |-> "OK",
            AllResults |-> <<[WrittenResponseLong |-> "Hello."]>>],
    AM |-> [Format |-> FormatResult, Status |-> "OK", NumToReturn |-> 1],
    AE |-> [Format |-> FormatResult, Status |-> "OK", NumToReturn |-> 1,
            AllResults |-> <<>>] ]

JsonChars == DOMAIN Json

\* The JSON texts with a member whose value is not of the Go type of the
\* field of houndServerPartialTranscript that it is decoded into: the
\* DurationMS of PW is 500.5, which is no int64 (the table has its integral
\* part).
Mistyped == { "PW" }

\* unicode.IsSpace for the characters of the model
IsSpace(c) == c \in {SP, NL}

\* strings.TrimSpace: the string without its leading and trailing white space
RECURSIVE TrimLeft(_)
TrimLeft(s) ==
  IF s # <<>> /\ IsSpace(Head(s)) THEN TrimLeft(Tail(s)) ELSE s

RECURSIVE TrimRight(_)
TrimRight(s) ==
  IF s # <<>> /\ IsSpace(s[Len(s)]) THEN TrimRight(SubSeq(s, 1, Len(s) - 1)) ELSE s

TrimSpace(s) == TrimRight(TrimLeft(s))

\* strconv.Atoi(line) returns a nil error: the string is a non-empty run of
\* decimal digits (no sign character occurs in the model's streams)
AtoiOK(s) == s # <<>> /\ \A i \in 1..Len(s) : s[i] = Digit

\* json.Unmarshal([]byte(line), &incoming) returns a nil error: the string is
\* the text of one JSON object whose members have the types of
\* houndServerPartialTranscript
UnmarshalOK(s) == Len(s) = 1 /\ s[1] \in JsonChars /\ s[1] \notin Mistyped

\* the decoded houndServerPartialTranscript: absent members keep Go's zero
\* value, an absent SafeToStopAudio is a nil pointer
Member(obj, name, zero) == IF name \in DOMAIN obj THEN obj[name] ELSE zero

Incoming(s) ==
  LET obj == Json[s[1]] IN
  [ Format            |-> Member(obj, "Format", ""),
    PartialTranscript |-> Member(obj, "PartialTranscript", ""),
    DurationMS        |-> Member(obj, "DurationMS", <<0, 0>>),
    Done              |-> Member(obj, "Done", FALSE),
    SafeToStopAudio   |-> IF "SafeToStopAudio" \in DOMAIN obj
                          THEN IF obj["SafeToStopAudio"] THEN "true" ELSE "false"
                          ELSE "nil" ]

\* time.ParseDuration(fmt.Sprintf("%d", ms) + "ms") returns a nil error: the
\* number of milliseconds is at most 1<<63 / 10^6 = 9223372036854
MaxDurationHigh == 9223
MaxDurationLow == 372036854

ParseDurationOK(ms) ==
  \/ ms[1] < MaxDurationHigh
  \/ ms[1] = MaxDurationHigh /\ ms[2] <= MaxDurationLow

\* the time.Duration it returns, in nanoseconds, in base 10^9 (three digits):
\* the milliseconds times 10^6
ParseDuration(ms) ==
  << ms[1] \div 1000,
     (ms[1] % 1000) * 1000000 + ms[2] \div 1000,
     (ms[2] % 1000) * 1000000 >>

IsPartialFormat(f) == f = FormatPartial \/ f = FormatPartialLegacy

IsResultFormat(f) == f = FormatResult

\* bufio.Reader.ReadBytes('\n') on the unread bytes of the body: the bytes up
\* to and including the first newline, or all of them with io.EOF
RECURSIVE UpToNewline(_)
UpToNewline(s) ==
  IF s = <<>> THEN <<>>
  ELSE IF Head(s) = NL THEN <<NL>>
  ELSE <<Head(s)>> \o UpToNewline(Tail(s))

HasNewline(s) == \E i \in 1..Len(s) : s[i] = NL

ReadBytes(s) ==
  IF HasNewline(s)
  THEN LET b == UpToNewline(s) IN
       [bytes |-> b, err |-> "nil", rest |-> SubSeq(s, Len(b) + 1, Len(s))]
  ELSE [bytes |-> s, err |-> "EOF", rest |-> <<>>]

\* Mutants of LoopStep: only one spelling of the partial-transcript format is
\* taken; the final-result format is not looked at; a line that is no JSON
\* ends the loop.
LoopStepOneSpelling(l) ==
  IF l = <<>> THEN "continue"
  ELSE IF AtoiOK(l) THEN "continue"
  ELSE IF ~UnmarshalOK(l) THEN "continue"
  ELSE IF Incoming(l).Format = FormatPartial
       THEN IF ParseDurationOK(Incoming(l).DurationMS) THEN "dispatch" ELSE "continue"
  ELSE IF IsResultFormat(Incoming(l).Format) THEN "break"
  ELSE "continue"

LoopStepMissesResult(l) ==
  IF l = <<>> THEN "continue"
  ELSE IF AtoiOK(l) THEN "continue"
  ELSE IF ~UnmarshalOK(l) THEN "continue"
  ELSE IF IsPartialFormat(Incoming(l).Format)
       THEN IF ParseDurationOK(Incoming(l).DurationMS) THEN "dispatch" ELSE "continue"
  ELSE "continue"

LoopStepStopsAtMalformed(l) ==
  IF l = <<>> THEN "continue"
  ELSE IF AtoiOK(l) THEN "continue"
  ELSE IF ~UnmarshalOK(l) THEN "break"
  ELSE IF IsPartialFormat(Incoming(l).Format)
       THEN IF ParseDurationOK(Incoming(l).DurationMS) THEN "dispatch" ELSE "continue"
  ELSE IF IsResultFormat(Incoming(l).Format) THEN "break"
  ELSE "continue"

\* Mutant of LoopStep: every Format but the final result's is a partial
\* transcript's.
LoopStepFormatNotCompared(l) ==
  IF l = <<>> THEN "continue"
  ELSE IF AtoiOK(l) THEN "continue"
  ELSE IF ~UnmarshalOK(l) THEN "continue"
  ELSE IF IsResultFormat(Incoming(l).Format) THEN "break"
  ELSE IF ParseDurationOK(Incoming(l).DurationMS) THEN "dispatch" ELSE "continue"

\* Mutant of LoopStep: a blank line ends the loop.
LoopStepBlankEnds(l) ==
  IF l = <<>> THEN "break"
  ELSE IF AtoiOK(l) THEN "continue"
  ELSE IF ~UnmarshalOK(l) THEN "continue"
  ELSE IF IsPartialFormat(Incoming(l).Format)
       THEN IF ParseDurationOK(Incoming(l).DurationMS) THEN "dispatch" ELSE "continue"
  ELSE IF IsResultFormat(Incoming(l).Format) THEN "break"
  ELSE "continue"

\* What one pass of the read loop does with a line read without an error:
\* "continue" (the line is skipped), "dispatch" (a partial transcript is
\* handed to a new goroutine, then continue) or "break" (the final response)
LoopStep(l) ==
  IF l = <<>> THEN "continue"
  ELSE IF AtoiOK(l) THEN "continue"
  ELSE IF ~UnmarshalOK(l) THEN "continue"
  ELSE IF IsPartialFormat(Incoming(l).Format)
       THEN IF ParseDurationOK(Incoming(l).DurationMS) THEN "dispatch" ELSE "continue"
  ELSE IF IsResultFormat(Incoming(l).Format) THEN "break"
  ELSE "continue"

\* the PartialTranscript the delivery goroutine sends
PartialTranscript(l) ==
  [ Message         |-> Incoming(l).PartialTranscript,
    Duration        |-> ParseDuration(Incoming(l).DurationMS),
    Done            |-> Incoming(l).Done,
    SafeToStopAudio |-> Incoming(l).SafeToStopAudio ]

\* json.Unmarshal([]byte(serverResponseJSON), &result) into a map or into
\* HoundifyResponse returns a nil error: the string is the text of one JSON
\* object, with or without white space around it
UnmarshalMapOK(s) == Len(TrimSpace(s)) = 1 /\ TrimSpace(s)[1] \in JsonChars

\* strings.EqualFold(s, "OK") for the Status values of the model
EqualFoldOK(s) == s \in {"OK", "ok", "Ok", "oK"}

\* parseConversationState(serverResponseJSON): the new state, an error, or a
\* panic of a failed type assertion
ParseConversationState(s) ==
  IF ~UnmarshalMapOK(s)
  THEN [kind |-> "error", msg |-> "failed to decode json"]
  ELSE LET result == Json[TrimSpace(s)[1]] IN
    IF "Status" \notin DOMAIN result THEN [kind |-> "panic"]
    ELSE IF ~EqualFoldOK(result["Status"])
      THEN IF "ErrorMessage" \notin DOMAIN result THEN [kind |-> "panic"]
           ELSE [kind |-> "error", msg |-> result["ErrorMessage"]]
    ELSE IF "NumToReturn" \notin DOMAIN result THEN [kind |-> "panic"]
    ELSE IF result["NumToReturn"] < 1
      THEN [kind |-> "error", msg |-> "no results to return"]
    ELSE IF "AllResults" \notin DOMAIN result THEN [kind |-> "panic"]
    ELSE IF Len(result["AllResults"]) < 1
      THEN [kind |-> "error", msg |-> "empty server response"]
    ELSE [kind |-> "ok",
          state |-> Member(result["AllResults"][1], "ConversationState", "nil")]

\* ParseWrittenResponse(serverResponseJSON), with a map as the result of
\* json.Unmarshal: the text, an error, or a panic of a failed type assertion
\* or of an index out of range
ParseWrittenResponse(s) ==
  IF ~UnmarshalMapOK(s)
  THEN [kind |-> "error", msg |-> "failed to decode json"]
  ELSE LET result == Json[TrimSpace(s)[1]] IN
    IF "Status" \notin DOMAIN result THEN [kind |-> "panic"]
    ELSE IF ~EqualFoldOK(result["Status"])
      THEN IF "ErrorMessage" \notin DOMAIN result THEN [kind |-> "panic"]
           ELSE [kind |-> "error", msg |-> result["ErrorMessage"]]
    ELSE IF "NumToReturn" \notin DOMAIN result THEN [kind |-> "panic"]
    ELSE IF result["NumToReturn"] < 1
      THEN [kind |-> "error", msg |-> "no results to return"]
    ELSE IF "AllResults" \notin DOMAIN result THEN [kind |-> "panic"]
    ELSE IF Len(result["AllResults"]) < 1 THEN [kind |-> "panic"]
    ELSE IF "WrittenResponseLong" \notin DOMAIN result["AllResults"][1]
      THEN [kind |-> "panic"]
    ELSE [kind |-> "ok", text |-> result["AllResults"][1]["WrittenResponseLong"]]

\* ParseSpokenResponse(serverResponseJSON), with a HoundifyResponse as the
\* result of json.Unmarshal (absent members are zero values, an absent
\* ErrorMessage is a nil pointer): the text, an error, or the panic of the
\* nil pointer dereferenced
ParseSpokenResponse(s) ==
  IF ~UnmarshalMapOK(s)
  THEN [kind |-> "error", msg |-> "failed to decode json"]
  ELSE LET result == Json[TrimSpace(s)[1]] IN
    IF ~EqualFoldOK(Member(result, "Status", ""))
      THEN IF "ErrorMessage" \notin DOMAIN result THEN [kind |-> "panic"]
           ELSE [kind |-> "error", msg |-> result["ErrorMessage"]]
    ELSE IF Member(result, "NumToReturn", 0) < 1
            \/ Len(Member(result, "AllResults", <<>>)) < 1
      THEN [kind |-> "error", msg |-> "no results to return"]
    ELSE [kind |-> "ok",
          text |-> Member(result["AllResults"][1], "SpokenResponseLong", "")]

(***************************************************************************)
(* The authentication values of a request.  A client key is a text, a      *)
(* sequence of characters: a letter, the characters that the two base64    *)
(* alphabets do not share, and the padding.                                *)
(***************************************************************************)
\* time.Now().Unix() of the first second of the model
Now == 1563391700
MaxTime == 1
\* the seconds in which requests are made
Times == Now..(Now + MaxTime)

ClientID == "client"
UserID == "user"
RequestID == "request"
SDKUserAgent == "Go Houndify SDK"

\* strings.Replace(input, old, new, -1) for one character
Replace(input, old, new) ==
  [ i \in 1..Len(input) |-> IF input[i] = old THEN new ELSE input[i] ]

\* Mutant of unescapeBase64Url: both characters are replaced by "+".
unescapeBase64UrlToPlus(input) == Replace(Replace(input, "-", "+"), "_", "+")

unescapeBase64Url(input) == Replace(Replace(input, "-", "+"), "_", "/")

escapeBase64Url(input) == Replace(Replace(input, "+", "-"), "/", "_")

\* base64.StdEncoding.DecodeString(s) returns no error: characters of the
\* standard alphabet in groups of four, the last group padded with at most
\* two "="
StdAlphabet == { "A", "+", "/" }
DecodeStringOK(s) ==
  /\ Len(s) % 4 = 0
  /\ \A i \in 1..Len(s) :
       \/ s[i] \in StdAlphabet
       \/ /\ s[i] = "="
          /\ i > Len(s) - 2
          /\ \A j \in i..Len(s) : s[j] = "="

\* escapeBase64Url(base64.StdEncoding.EncodeToString(hmac.Sum(nil))) of the
\* HMAC-SHA256 of a message under a key.  No digest is computed: the text
\* names the key and the message, so that two signatures are equal exactly
\* when their keys and their messages are (the HMAC has no collisions).
Signature(decodedClientKey, message) ==
  "hmac(" \o ToString(decodedClientKey) \o ", " \o message \o ")"

\* Mutant of generateAuthValues: the time is read again for the token.
generateAuthValuesReadsTimeTwice(clientID, clientKey, userID, requestID, now) ==
  LET timeStamp == now
      unescaped == unescapeBase64Url(clientKey) IN
  IF ~DecodeStringOK(unescaped)
  THEN [ houndClientAuth |-> "", houndRequestAuth |-> "", timeStamp |-> timeStamp,
         returnErr |-> "failed to decode client key" ]
  ELSE LET signature == Signature(unescaped,
                                  userID \o ";" \o requestID \o ToString(timeStamp)) IN
       [ houndClientAuth |->
           clientID \o ";" \o ToString(timeStamp + 1) \o ";" \o signature,
         houndRequestAuth |-> userID \o ";" \o requestID,
         timeStamp |-> timeStamp,
         returnErr |-> "nil" ]

\* Mutant of generateAuthValues: the request ID is not signed.
generateAuthValuesSignsNoRequestID(clientID, clientKey, userID, requestID, now) ==
  LET timeStamp == now
      unescaped == unescapeBase64Url(clientKey) IN
  IF ~DecodeStringOK(unescaped)
  THEN [ houndClientAuth |-> "", houndRequestAuth |-> "", timeStamp |-> timeStamp,
         returnErr |-> "failed to decode client key" ]
  ELSE LET signature == Signature(unescaped, userID \o ";" \o ToString(timeStamp)) IN
       [ houndClientAuth |-> clientID \o ";" \o ToString(timeStamp) \o ";" \o signature,
         houndRequestAuth |-> userID \o ";" \o requestID,
         timeStamp |-> timeStamp,
         returnErr |-> "nil" ]

\* Mutant of generateAuthValues: the request authentication has no request ID.
generateAuthValuesUserOnly(clientID, clientKey, userID, requestID, now) ==
  LET timeStamp == now
      unescaped == unescapeBase64Url(clientKey) IN
  IF ~DecodeStringOK(unescaped)
  THEN [ houndClientAuth |-> "", houndRequestAuth |-> "", timeStamp |-> timeStamp,
         returnErr |-> "failed to decode client key" ]
  ELSE LET signature == Signature(unescaped,
                                  userID \o ";" \o requestID \o ToString(timeStamp)) IN
       [ houndClientAuth |-> clientID \o ";" \o ToString(timeStamp) \o ";" \o signature,
         houndRequestAuth |-> userID,
         timeStamp |-> timeStamp,
         returnErr |-> "nil" ]

\* generateAuthValues(clientID, clientKey, userID, requestID), with now the
\* value that time.Now().Unix() returns to it
generateAuthValues(clientID, clientKey, userID, requestID, now) ==
  LET timeStamp == now
      unescaped == unescapeBase64Url(clientKey) IN
  IF ~DecodeStringOK(unescaped)
  THEN [ houndClientAuth |-> "", houndRequestAuth |-> "", timeStamp |-> timeStamp,
         returnErr |-> "failed to decode client key" ]
  ELSE LET signature == Signature(unescaped,
                                  userID \o ";" \o requestID \o ToString(timeStamp)) IN
       [ houndClientAuth |-> clientID \o ";" \o ToString(timeStamp) \o ";" \o signature,
         houndRequestAuth |-> userID \o ";" \o requestID,
         timeStamp |-> timeStamp,
         returnErr |-> "nil" ]

\* the client keys of the model: two that decode, one of them in the URL
\* alphabet, and one that does not decode
ClientKey == << "A", "-", "_", "A" >>
ClientKeys == { ClientKey, << "A", "A", "=", "=" >>, << "A", "A", "A" >> }

(***************************************************************************)
(* The request info, the JSON document sent with every request.  A map is  *)
(* a function from the names of its members to their values, each value    *)
(* written as its JSON text (a string without its quotes, "nil": null).    *)
(***************************************************************************)
\* m[k] = v of a Go map
SetField(m, k, v) == [ x \in DOMAIN m \cup {k} |-> IF x = k THEN v ELSE m[x] ]

\* Mutant of createRequestInfo: the fields of the caller are copied last.
createRequestInfoCallerWins(clientID, requestID, timeStamp, extraFields) ==
  LET kept == { k \in DOMAIN extraFields : extraFields[k] # "nil" }
      own == [ TimeStamp |-> timeStamp, ClientID |-> clientID, RequestID |-> requestID,
               SDK |-> "Go", SDKVersion |-> "0.1",
               PartialTranscriptsDesired |-> "true", ObjectByteCountPrefix |-> "true" ]
  IN [ k \in kept \cup DOMAIN own |-> IF k \in kept THEN extraFields[k] ELSE own[k] ]

\* Mutant of createRequestInfo: the fields whose value is nil are copied too.
createRequestInfoCopiesNil(clientID, requestID, timeStamp, extraFields) ==
  LET own == [ TimeStamp |-> timeStamp, ClientID |-> clientID, RequestID |-> requestID,
               SDK |-> "Go", SDKVersion |-> "0.1",
               PartialTranscriptsDesired |-> "true", ObjectByteCountPrefix |-> "true" ]
  IN [ k \in DOMAIN extraFields \cup DOMAIN own |->
         IF k \in DOMAIN own THEN own[k] ELSE extraFields[k] ]

\* createRequestInfo: the extra fields whose value is not nil, then the
\* fields the SDK sets
createRequestInfo(clientID, requestID, timeStamp, extraFields) ==
  LET kept == { k \in DOMAIN extraFields : extraFields[k] # "nil" }
      own == [ TimeStamp |-> timeStamp, ClientID |-> clientID, RequestID |-> requestID,
               SDK |-> "Go", SDKVersion |-> "0.1",
               PartialTranscriptsDesired |-> "true", ObjectByteCountPrefix |-> "true" ]
  IN [ k \in kept \cup DOMAIN own |-> IF k \in DOMAIN own THEN own[k] ELSE extraFields[k] ]

\* json.Marshal(requestInfo): the members in the order of their names, each
\* with its value
MemberNames ==
  << "ClientID", "ConversationState", "InputLanguageEnglishName", "InputLanguageIETFTag",
     "Latitude", "ObjectByteCountPrefix", "PartialTranscriptsDesired", "RequestID",
     "SDK", "SDKVersion", "TimeStamp", "UnitPreference" >>

RECURSIVE MarshalFrom(_, _)
MarshalFrom(requestInfo, n) ==
  IF n > Len(MemberNames) THEN ""
  ELSE IF MemberNames[n] \in DOMAIN requestInfo
       THEN "\"" \o MemberNames[n] \o "\":" \o requestInfo[MemberNames[n]] \o ","
              \o MarshalFrom(requestInfo, n + 1)
       ELSE MarshalFrom(requestInfo, n + 1)

Marshal(requestInfo) == "{" \o MarshalFrom(requestInfo, 1) \o "}"

\* the headers that BuildRequest sets from fields of the request info
langHeaders ==
  [ InputLanguageEnglishName |-> "Hound-Input-Language-English-Name",
    InputLanguageIETFTag |-> "Hound-Input-Language-IETF-Tag" ]

\* Mutant of ConversationStateField: the stored conversation state is sent
\* also when conversation tracking is disabled.
ConversationStateFieldSendsStoredState(c) == c.conversationState

\* Mutant of ConversationStateField: no conversation state is ever sent.
ConversationStateFieldForgetsState(c) == "nil"

\* what BuildRequest assigns to reqInfo["ConversationState"]
ConversationStateField(c) ==
  IF c.enableConversationState THEN c.conversationState ELSE "nil"

\* Mutant of TimeStampField: a TimeStamp of the caller is kept.
TimeStampFieldKeepsCallers(reqInfo, auth) ==
  IF "TimeStamp" \in DOMAIN reqInfo THEN reqInfo
  ELSE SetField(reqInfo, "TimeStamp", ToString(auth.timeStamp))

\* reqInfo["TimeStamp"] = auth.timeStamp
TimeStampField(reqInfo, auth) == SetField(reqInfo, "TimeStamp", ToString(auth.timeStamp))

\* Mutant of LanguageHeaders: no language header is set.
LanguageHeadersNotSet(header, reqInfo) == header

\* the language headers, set for the fields that reqInfo has
RECURSIVE SetAll(_, _, _)
SetAll(header, names, reqInfo) ==
  IF names = {} THEN header
  ELSE LET input == CHOOSE n \in names : TRUE IN
       SetAll(SetField(header, langHeaders[input], reqInfo[input]),
              names \ {input}, reqInfo)

LanguageHeaders(header, reqInfo) ==
  SetAll(header, DOMAIN langHeaders \cap DOMAIN reqInfo, reqInfo)

\* Mutant of InfoHeaders: the request info is sent in the header also when
\* it is sent in the body.
InfoHeadersBoth(header, inBody, requestInfoJSON) ==
  LET withInfo == SetField(header, "Hound-Request-Info", requestInfoJSON) IN
  IF ~inBody THEN withInfo
  ELSE SetField(withInfo, "Hound-Request-Info-Length", ToString(Len(requestInfoJSON)))

\* the header of the request info, or of its length
InfoHeaders(header, inBody, requestInfoJSON) ==
  IF ~inBody
  THEN SetField(header, "Hound-Request-Info", requestInfoJSON)
  ELSE SetField(header, "Hound-Request-Info-Length", ToString(Len(requestInfoJSON)))

\* a RequestInfoFields that is nil, the map that was never made: the one
\* mapping with a member of this name
NilMap == [ nil |-> "nil" ]

\* Mutant of GetRequestInfo: a nil map is used as it is.
GetRequestInfoUnguarded(fields) == fields

\* reqInfo := houndReq.GetRequestInfo(), with an empty map made for a nil one
GetRequestInfo(fields) == IF fields = NilMap THEN <<>> ELSE fields

\* BuildRequest(houndReq, c) for a request whose RequestInfoFields are
\* fields and whose NewRequest succeeds, with now the time that
\* generateAuthValues reads: the error of the authentication, the panic of
\* an assignment to an entry of a nil map, the panic of val.(string) for a
\* language field whose value is not a string, or the request (its headers,
\* its body, the request info and what it was made from)
BuildRequest(fields, c, now) ==
  LET auth == generateAuthValues(c.ClientID, c.ClientKey, UserID, RequestID, now) IN
  IF auth.returnErr # "nil" THEN [ err |-> auth.returnErr ]
  ELSE IF GetRequestInfo(fields) = NilMap THEN [ err |-> "panic" ]
  ELSE LET stamped == TimeStampField(GetRequestInfo(fields), auth) IN
  IF \E input \in DOMAIN langHeaders \cap DOMAIN stamped : stamped[input] = "nil"
  THEN [ err |-> "panic" ]
  ELSE LET reqInfo == SetField(stamped, "ConversationState", ConversationStateField(c))
           requestInfo == createRequestInfo(c.ClientID, RequestID,
                                            reqInfo["TimeStamp"], reqInfo)
           requestInfoJSON == Marshal(requestInfo)
           authHeaders ==
             SetField(SetField(SetField(<<>>,
               "User-Agent", SDKUserAgent),
               "Hound-Request-Authentication", auth.houndRequestAuth),
               "Hound-Client-Authentication", auth.houndClientAuth)
       IN [ err |-> "nil",
            Header |-> InfoHeaders(LanguageHeaders(authHeaders, stamped),
                                   c.RequestInfoInBody, requestInfoJSON),
            Body |-> IF c.RequestInfoInBody THEN requestInfoJSON ELSE "",
            fields |-> fields,
            extraFields |-> reqInfo,
            auth |-> auth,
            requestInfo |-> requestInfo ]

\* the RequestInfoFields of the requests of the model: none; a map that
\* holds fields of its own, a nil value and values for the fields that the
\* SDK sets; maps with the fields of the input language, and one in which
\* such a field is nil
NoFields == <<>>

OwnFields ==
  [ Latitude |-> "37.4", UnitPreference |-> "nil", ConversationState |-> "mine",
    TimeStamp |-> "1", ClientID |-> "other", RequestID |-> "other", SDK |-> "Rust",
    SDKVersion |-> "9.9", PartialTranscriptsDesired |-> "false",
    ObjectByteCountPrefix |-> "false" ]

LanguageFields ==
  [ InputLanguageEnglishName |-> "English", InputLanguageIETFTag |-> "en-US" ]

TagOnly == [ InputLanguageIETFTag |-> "en-GB" ]

NilLanguage == [ InputLanguageEnglishName |-> "nil" ]

FieldMappings == { NoFields, OwnFields }
LanguageMappings == { LanguageFields, TagOnly, NilLanguage }
RequestMappings == { NoFields, OwnFields, LanguageFields, TagOnly, NilLanguage, NilMap }

(***************************************************************************)
(* NewRequest.  A URL is a text taken as a whole; a query is a sequence of *)
(* characters: a letter, a space, a slash and an ampersand.                *)
(***************************************************************************)
houndifyVoiceURL == "https://api.houndify.com:443/v1/audio"
houndifyTextURL == "https://api.houndify.com:443/v1/text"

\* url.PathEscape for the characters of the model: the space and the slash
\* are written as their codes, the letter and the ampersand are kept
EscapeChar(c) ==
  CASE c = " " -> "%20"
    [] c = "/" -> "%2F"
    [] OTHER -> c

RECURSIVE PathEscape(_)
PathEscape(query) ==
  IF query = <<>> THEN "" ELSE EscapeChar(Head(query)) \o PathEscape(Tail(query))

\* the URLs that url.Parse, called by http.NewRequest, rejects: a text with
\* a percent sign that no two hexadecimal digits follow
RejectedURLs == { "http://test.com/%zz" }

\* http.NewRequest(method, url, body): the request, or the error of url.Parse
HttpNewRequest(method, url, body) ==
  IF url \in RejectedURLs
  THEN [ err |-> "invalid URL escape" ]
  ELSE [ err |-> "nil", Method |-> method, URL |-> url, Body |-> body ]

\* Mutant of TextRequestNewRequest: the request goes to the default URL.
TextRequestNewRequestToDefault(URL, Query) ==
  LET req == HttpNewRequest("POST", houndifyTextURL \o "?query=" \o PathEscape(Query), "") IN
  IF req.err # "nil"
  THEN [ err |-> "failed to build http request: " \o req.err, URL |-> houndifyTextURL ]
  ELSE [ err |-> "nil", req |-> req, URL |-> houndifyTextURL ]

\* (r *TextRequest) NewRequest(): the request or the error, and r.URL as the
\* call leaves it
TextRequestNewRequest(URL, Query) ==
  LET rURL == IF Len(URL) = 0 THEN houndifyTextURL ELSE URL
      req == HttpNewRequest("POST", rURL \o "?query=" \o PathEscape(Query), "") IN
  IF req.err # "nil"
  THEN [ err |-> "failed to build http request: " \o req.err, URL |-> rURL ]
  ELSE [ err |-> "nil", req |-> req, URL |-> rURL ]

\* (r *VoiceRequest) NewRequest()
VoiceRequestNewRequest(URL) ==
  LET rURL == IF Len(URL) = 0 THEN houndifyVoiceURL ELSE URL
      req == HttpNewRequest("POST", rURL, "nil") IN
  IF req.err # "nil"
  THEN [ err |-> "failed to build http request: " \o req.err, URL |-> rURL ]
  ELSE [ err |-> "nil", req |-> req, URL |-> rURL ]

(***************************************************************************)
(* Response bodies.                                                        *)
(***************************************************************************)
\* the texts of the newline-terminated lines of a generated body
LineTexts ==
  { <<>>, <<Digit>>, <<"PA">>, <<SP, "PB">>, <<"PX">>, <<"T">>, <<"U">>, <<Junk>> }

\* the texts after the last newline of a generated body
TailTexts == { <<>>, <<"T">>, <<"U", SP>>, <<Junk>> }

RECURSIVE SeqsUpTo(_, _)
SeqsUpTo(S, n) ==
  IF n = 0 THEN { <<>> }
  ELSE LET shorter == SeqsUpTo(S, n - 1) IN
       shorter \cup { Append(q, x) : q \in shorter, x \in S }

RECURSIVE Lines(_)
Lines(ls) == IF ls = <<>> THEN <<>> ELSE Head(ls) \o <<NL>> \o Lines(Tail(ls))

GeneratedBodies(n) == { Lines(ls) \o t : ls \in SeqsUpTo(LineTexts, n), t \in TailTexts }

\* longer bodies: two partial transcripts with a line that is no JSON between
\* them, then the final result, then one more partial transcript; three
\* partial transcripts, then the final result; two partial transcripts and
\* the final result, each behind its byte count; a partial transcript whose
\* DurationMS is no integer, an object with no Format, a partial transcript
\* and the final result
ScenarioBodies ==
  { Lines(<< <<"PA">>, <<Junk>>, <<SP, "PB">>, <<"T">>, <<"PA">> >>),
    Lines(<< <<"PA">>, <<SP, "PB">>, <<"PX">>, <<"T">> >>),
    Lines(<< <<Digit>>, <<"PA">>, <<Digit>>, <<"PB">>, <<Digit>>, <<"T">> >>),
    Lines(<< <<"PW">>, <<"E">>, <<"PA">>, <<"T">> >>) }

Bodies == GeneratedBodies(MaxLines) \cup ScenarioBodies

\* the bodies of the specifications with fairness
FewerBodies == GeneratedBodies(MaxLines - 1) \cup ScenarioBodies

StatusCodes == {200, 400}

(***************************************************************************)
(* State.                                                                  *)
(***************************************************************************)
VARIABLES
  enableConversationState, \* Client.enableConversationState
  conversationState,       \* Client.conversationState ("nil": the nil interface)
  RequestInfoInBody,       \* Client.RequestInfoInBody
  pc,                      \* where the caller's goroutine is: "idle", in the
                           \* read loop of VoiceSearch ("reading"), after its
                           \* return ("returned") or after its panic ("panicked")
  statusCode,              \* resp.StatusCode
  served,                  \* the whole response body the server sends
  unread,                  \* the bytes of resp.Body not read yet
  partialChanWait,         \* the counter of the sync.WaitGroup
  deliveries,              \* the delivery goroutines, in the order of their start
  closer,                  \* the goroutine of the deferred function
  closes,                  \* how many times partialTranscriptChan was closed
  consumer,                \* the caller's goroutine that ranges over the channel:
                           \* "running" (on its way to the next receive),
                           \* "receiving" (blocked in the receive) or "ended"
  received,                \* the PartialTranscripts it has received, in order
  retBody,                 \* the string VoiceSearch returned
  retErr,                  \* the error VoiceSearch returned (<<>>: nil)
  exit,                    \* how VoiceSearch left its read loop
  before,                  \* Client.conversationState when VoiceSearch was called
  fault,                   \* the run-time panic that happened, if any
  requestInfo,             \* the request info of the request built last
  calls,                   \* how many earlier calls the client has made
  tracked,                 \* Client.enableConversationState when the call began
  untouched,               \* no SetConversationState and no
                           \* ClearConversationState since the call began
  parsed,                  \* what the caller's Parse...Response call on the
                           \* returned body gave
  request,                 \* the *http.Request built last and what it was
                           \* built from (<<>>: none)
  clock,                   \* what time.Now().Unix() returned last
  auths,                   \* the calls of generateAuthValues made on their
                           \* own, with their results
  escaped,                 \* the last call of escapeBase64Url or
                           \* unescapeBase64Url made on its own, with its
                           \* result and the result of the other function
                           \* for that result
  made,                    \* the last call of NewRequest made on its own,
                           \* with its result (<<>>: none)
  writer,                  \* StreamAudio's goroutine that writes the audio
                           \* into the pipe: "none" (not started), "select"
                           \* (at the select of its loop) or "ended"
                           \* (returned, wp closed)
  audio,                   \* the audio file: how many chunks it has and how
                           \* many of them were read (loc)
  earlier                  \* the search that the client's call before this
                           \* one was: "voice", "text" or "none"

vars ==
  << enableConversationState, conversationState, RequestInfoInBody, pc, statusCode,
     served, unread, partialChanWait, deliveries, closer, closes, consumer,
     received, retBody, retErr, exit, before, fault, requestInfo, calls, tracked,
     untouched, parsed, request, clock, auths, escaped, made, writer, audio,
     earlier >>

authVars == << clock, auths, escaped >>
streamVars == << writer, audio >>
\* the variables of the functions checked on their own and of StreamAudio
otherVars == << authVars, made, streamVars, earlier >>
reqVars == << requestInfo, calls, tracked, untouched, parsed, request, otherVars >>
clientVars == << enableConversationState, conversationState, RequestInfoInBody >>
callVars == << pc, statusCode, served, unread, retBody, retErr, exit, before >>
chanVars == << partialChanWait, deliveries, closer, closes, consumer, received >>

chanClosed == closes > 0

\* a panic in a goroutine nobody recovers from ends the process
GoroutinePanics == { "send on closed channel", "close of closed channel" }
Running == fault \notin GoroutinePanics

Init ==
  /\ enableConversationState = FALSE
  /\ conversationState = "nil"
  /\ RequestInfoInBody = FALSE
  /\ pc = "idle"
  /\ statusCode = 0
  /\ served = <<>>
  /\ unread = <<>>
  /\ partialChanWait = 0
  /\ deliveries = <<>>
  /\ closer = "none"
  /\ closes = 0
  /\ consumer = "running"
  /\ received = <<>>
  /\ retBody = <<>>
  /\ retErr = <<>>
  /\ exit = "none"
  /\ before = "nil"
  /\ fault = "none"
  /\ requestInfo = <<>>
  /\ calls = 0
  /\ tracked = FALSE
  /\ untouched = TRUE
  /\ parsed = <<>>
  /\ request = <<>>
  /\ clock = Now
  /\ auths = <<>>
  /\ escaped = <<>>
  /\ made = <<>>
  /\ writer = "none"
  /\ audio = [ chunks |-> 0, loc |-> 0 ]
  /\ earlier = "none"

(***************************************************************************)
(* The conversation-state helpers and the fields the caller sets, used     *)
(* between requests.                                                       *)
(***************************************************************************)
ConversationStates == { "cs0" }

EnableConversationState ==
  /\ pc = "idle"
  /\ UNCHANGED reqVars
  /\ enableConversationState' = TRUE
  /\ UNCHANGED << conversationState, RequestInfoInBody, callVars, chanVars, fault >>

\* Mutant of DisableConversationState: the stored state is forgotten too.
DisableConversationStateForgets ==
  /\ pc = "idle"
  /\ UNCHANGED reqVars
  /\ enableConversationState' = FALSE
  /\ conversationState' = "nil"
  /\ UNCHANGED << RequestInfoInBody, callVars, chanVars, fault >>

DisableConversationState ==
  /\ pc = "idle"
  /\ UNCHANGED reqVars
  /\ enableConversationState' = FALSE
  /\ UNCHANGED << conversationState, RequestInfoInBody, callVars, chanVars, fault >>

ClearConversationState ==
  /\ pc = "idle"
  /\ untouched' = FALSE
  /\ UNCHANGED << requestInfo, calls, tracked, parsed, request, otherVars >>
  /\ conversationState' = "nil"
  /\ UNCHANGED << enableConversationState, RequestInfoInBody, callVars, chanVars, fault >>

\* c.GetConversationState(): the stored state, and nothing is written
GetConversationState == conversationState

SetConversationState(newState) ==
  /\ pc = "idle"
  /\ untouched' = FALSE
  /\ UNCHANGED << requestInfo, calls, tracked, parsed, request, otherVars >>
  /\ conversationState' = newState
  /\ UNCHANGED << enableConversationState, RequestInfoInBody, callVars, chanVars, fault >>

SetRequestInfoInBody ==
  /\ pc = "idle"
  /\ UNCHANGED reqVars
  /\ RequestInfoInBody' = TRUE
  /\ UNCHANGED << enableConversationState, conversationState, callVars, chanVars, fault >>

(***************************************************************************)
(* Client.VoiceSearch.                                                     *)
(***************************************************************************)
\* The deferred function of VoiceSearch runs when VoiceSearch returns and
\* when it panics: it starts the goroutine that waits for the deliveries and
\* closes the channel.
Deferred == closer' = "waiting"

\* Mutant of Return: the closing goroutine is started behind the read loop,
\* not by a deferred function, so that the returns in front of it start none.
ReturnStartsCloserBehindLoop(body, err, how) ==
  /\ pc' = "returned"
  /\ retBody' = body
  /\ retErr' = err
  /\ exit' = how
  /\ closer' = IF how \in {"EOF", "final response"} THEN "waiting" ELSE closer

\* return body, err
Return(body, err, how) ==
  /\ pc' = "returned"
  /\ retBody' = body
  /\ retErr' = err
  /\ exit' = how
  /\ Deferred

\* a run-time panic in VoiceSearch
Panic(what, how) ==
  /\ pc' = "panicked"
  /\ fault' = what
  /\ exit' = how
  /\ Deferred
  /\ UNCHANGED << retBody, retErr >>

\* Mutant of ForceRequestInfoInHeader: the request of this call is built with
\* the flag off, and the flag of the Client is left as it was.
ForceRequestInfoInHeaderForThisCall == UNCHANGED RequestInfoInBody

\* c.RequestInfoInBody = false, the first statement of VoiceSearch, on the
\* Client that c points to
ForceRequestInfoInHeader == RequestInfoInBody' = FALSE

\* the Client that BuildRequest is called with, its ClientKey being key
Client(key) ==
  [ ClientID |-> ClientID, ClientKey |-> key,
    enableConversationState |-> enableConversationState,
    conversationState |-> conversationState,
    RequestInfoInBody |-> RequestInfoInBody ]

\* the errors with which BuildRequest returns no request: that of NewRequest
\* and those of AuthInfo for the client keys of the model
BuildErrors ==
  { "failed to build http request" }
    \cup ({ BuildRequest(NoFields, Client(key), Now).err : key \in ClientKeys } \ { "nil" })

\* BuildRequest fails (the request cannot be made or the client key cannot
\* be decoded) for a request with no context and no extra headers
VoiceSearchBuildFails ==
  /\ pc = "idle" /\ Running
  /\ tracked' = enableConversationState /\ untouched' = TRUE
  /\ UNCHANGED << requestInfo, calls, parsed, request, otherVars >>
  /\ ForceRequestInfoInHeader
  /\ before' = conversationState
  /\ \E cause \in BuildErrors : Return(<<>>, <<cause>>, "build")
  /\ UNCHANGED << enableConversationState, conversationState, statusCode, served, unread,
                  partialChanWait, deliveries, closes, consumer, received, fault >>

\* BuildRequest fails for a request with a context or with extra headers:
\* req is nil, and req.WithContext or req.Header dereferences it
VoiceSearchBuildFailsNilRequest ==
  /\ pc = "idle" /\ Running
  /\ tracked' = enableConversationState /\ untouched' = TRUE
  /\ UNCHANGED << requestInfo, calls, parsed, request, otherVars >>
  /\ ForceRequestInfoInHeader
  /\ before' = conversationState
  /\ Panic("nil pointer dereference", "build")
  /\ UNCHANGED << enableConversationState, conversationState, statusCode, served, unread,
                  partialChanWait, deliveries, closes, consumer, received >>

\* BuildRequest makes the request of one of the given RequestInfoFields and
\* c.HttpClient.Do(req) fails
VoiceSearchDoFails(mappings, keys, times) ==
  /\ pc = "idle" /\ Running
  /\ tracked' = enableConversationState /\ untouched' = TRUE
  /\ \E fields \in mappings, key \in keys, now \in times :
       \E req \in { BuildRequest(fields, [Client(key) EXCEPT !.RequestInfoInBody = FALSE],
                                  now) } :
         /\ req.err = "nil"
         /\ request' = [req EXCEPT !.Body = "AudioStream"]
         /\ requestInfo' = req.requestInfo
  /\ UNCHANGED << calls, parsed, otherVars >>
  /\ ForceRequestInfoInHeader
  /\ before' = conversationState
  /\ Return(<<>>, << "failed to successfully run request" >>, "transport")
  /\ UNCHANGED << enableConversationState, conversationState, statusCode, served, unread,
                  partialChanWait, deliveries, closes, consumer, received, fault >>

\* BuildRequest makes the request of one of the given RequestInfoFields and
\* c.HttpClient.Do(req) returns a response, with one of the given bodies
VoiceSearchDo(bodies, mappings, keys, times) ==
  /\ pc = "idle" /\ Running
  /\ tracked' = enableConversationState /\ untouched' = TRUE
  /\ \E fields \in mappings, key \in keys, now \in times :
       \E req \in { BuildRequest(fields, [Client(key) EXCEPT !.RequestInfoInBody = FALSE],
                                  now) } :
         /\ req.err = "nil"
         /\ request' = [req EXCEPT !.Body = "AudioStream"]
         /\ requestInfo' = req.requestInfo
  /\ UNCHANGED << calls, parsed, otherVars >>
  /\ ForceRequestInfoInHeader
  /\ before' = conversationState
  /\ \E body \in bodies, status \in StatusCodes :
       /\ served' = body
       /\ unread' = body
       /\ statusCode' = status
  /\ pc' = "reading"
  /\ UNCHANGED << enableConversationState, conversationState, chanVars, retBody, retErr,
                  exit, fault >>

\* Mutant of Finish: the status of the response is not looked at.
FinishIgnoresStatus(line, how) ==
  IF enableConversationState
  THEN LET new == ParseConversationState(line) IN
       CASE new.kind = "ok" ->
              /\ conversationState' = new.state
              /\ Return(line, <<>>, how)
              /\ UNCHANGED fault
         [] new.kind = "error" ->
              /\ Return(line,
                        << "unable to parse new conversation state from response",
                           new.msg >>, how)
              /\ UNCHANGED << conversationState, fault >>
         [] new.kind = "panic" ->
              /\ Panic("interface conversion", how)
              /\ UNCHANGED conversationState
  ELSE /\ Return(line, <<>>, how)
       /\ UNCHANGED << conversationState, fault >>

\* Mutant of Finish: the error of parseConversationState is replaced, not
\* wrapped.
FinishDropsCause(line, how) ==
  IF statusCode >= 400
  THEN /\ Return(line, << "error response" >>, how)
       /\ UNCHANGED << conversationState, fault >>
  ELSE IF enableConversationState
  THEN LET new == ParseConversationState(line) IN
       CASE new.kind = "ok" ->
              /\ conversationState' = new.state
              /\ Return(line, <<>>, how)
              /\ UNCHANGED fault
         [] new.kind = "error" ->
              /\ Return(line,
                        << "unable to parse new conversation state from response" >>,
                        how)
              /\ UNCHANGED << conversationState, fault >>
         [] new.kind = "panic" ->
              /\ Panic("interface conversion", how)
              /\ UNCHANGED conversationState
  ELSE /\ Return(line, <<>>, how)
       /\ UNCHANGED << conversationState, fault >>

\* Mutant of Finish: no body is returned with the error of
\* parseConversationState.
FinishReturnsNoBodyWithError(line, how) ==
  IF statusCode >= 400
  THEN /\ Return(line, << "error response" >>, how)
       /\ UNCHANGED << conversationState, fault >>
  ELSE IF enableConversationState
  THEN LET new == ParseConversationState(line) IN
       CASE new.kind = "ok" ->
              /\ conversationState' = new.state
              /\ Return(line, <<>>, how)
              /\ UNCHANGED fault
         [] new.kind = "error" ->
              /\ Return(<<>>,
                        << "unable to parse new conversation state from response",
                           new.msg >>, how)
              /\ UNCHANGED << conversationState, fault >>
         [] new.kind = "panic" ->
              /\ Panic("interface conversion", how)
              /\ UNCHANGED conversationState
  ELSE /\ Return(line, <<>>, how)
       /\ UNCHANGED << conversationState, fault >>

\* the statements after the read loop, with line as the body
Finish(line, how) ==
  IF statusCode >= 400
  THEN /\ Return(line, << "error response" >>, how)
       /\ UNCHANGED << conversationState, fault >>
  ELSE IF enableConversationState
  THEN LET new == ParseConversationState(line) IN
       CASE new.kind = "ok" ->
              /\ conversationState' = new.state
              /\ Return(line, <<>>, how)
              /\ UNCHANGED fault
         [] new.kind = "error" ->
              /\ Return(line,
                        << "unable to parse new conversation state from response",
                           new.msg >>, how)
              /\ UNCHANGED << conversationState, fault >>
         [] new.kind = "panic" ->
              /\ Panic("interface conversion", how)
              /\ UNCHANGED conversationState
  ELSE /\ Return(line, <<>>, how)
       /\ UNCHANGED << conversationState, fault >>

\* Mutant of VoiceSearchReadError: what was read of the line is returned.
VoiceSearchReadErrorReturnsLine ==
  /\ pc = "reading" /\ Running
  /\ UNCHANGED reqVars
  /\ \E line \in { TrimSpace(ReadBytes(unread).bytes) } :
       Return(line, << "error reading Houndify server response" >>, "read error")
  /\ UNCHANGED << clientVars, statusCode, served, unread, partialChanWait, deliveries,
                  closes, consumer, received, before, fault >>

\* reader.ReadBytes fails with an error that is not io.EOF
VoiceSearchReadError ==
  /\ pc = "reading" /\ Running
  /\ UNCHANGED reqVars
  /\ Return(<<>>, << "error reading Houndify server response" >>, "read error")
  /\ UNCHANGED << clientVars, statusCode, served, unread, partialChanWait, deliveries,
                  closes, consumer, received, before, fault >>

\* Mutant of VoiceSearchEOF: the bytes read are not trimmed.
VoiceSearchEOFUntrimmed ==
  /\ pc = "reading" /\ Running
  /\ UNCHANGED reqVars
  /\ \E read \in { ReadBytes(unread) } :
       /\ read.err = "EOF"
       /\ unread' = read.rest
       /\ Finish(read.bytes, "EOF")
  /\ UNCHANGED << enableConversationState, RequestInfoInBody, statusCode, served,
                  partialChanWait, deliveries, closes, consumer, received, before >>

\* reader.ReadBytes returns io.EOF: what was read is the final response
VoiceSearchEOF ==
  /\ pc = "reading" /\ Running
  /\ UNCHANGED reqVars
  /\ \E read \in { ReadBytes(unread) } :
       /\ read.err = "EOF"
       /\ unread' = read.rest
       /\ \E line \in { TrimSpace(read.bytes) } : Finish(line, "EOF")
  /\ UNCHANGED << enableConversationState, RequestInfoInBody, statusCode, served,
                  partialChanWait, deliveries, closes, consumer, received, before >>

\* a line that the loop skips
VoiceSearchSkipLine ==
  /\ pc = "reading" /\ Running
  /\ UNCHANGED reqVars
  /\ \E read \in { ReadBytes(unread) } :
       /\ read.err = "nil"
       /\ unread' = read.rest
       /\ \E line \in { TrimSpace(read.bytes) } : LoopStep(line) = "continue"
  /\ UNCHANGED << clientVars, pc, statusCode, served, retBody, retErr, exit, before,
                  chanVars, fault >>

\* Mutant of VoiceSearchDispatch: the read loop itself sends on the channel.
VoiceSearchDispatchSendsInLoop ==
  /\ pc = "reading" /\ Running
  /\ UNCHANGED reqVars
  /\ consumer = "receiving"
  /\ closes = 0
  /\ \E read \in { ReadBytes(unread) } :
       /\ read.err = "nil"
       /\ unread' = read.rest
       /\ \E line \in { TrimSpace(read.bytes) } :
            /\ LoopStep(line) = "dispatch"
            /\ received' = Append(received, PartialTranscript(line))
            /\ deliveries' = Append(deliveries,
                                [ msg  |-> PartialTranscript(line),
                                  line |-> Len(served) - Len(unread),
                                  at   |-> "end" ])
  /\ consumer' = "running"
  /\ UNCHANGED << clientVars, pc, statusCode, served, retBody, retErr, exit, before,
                  partialChanWait, closer, closes, fault >>

\* a partial transcript: partialChanWait.Add(1) and a new goroutine
VoiceSearchDispatch ==
  /\ pc = "reading" /\ Running
  /\ UNCHANGED reqVars
  /\ \E read \in { ReadBytes(unread) } :
       /\ read.err = "nil"
       /\ unread' = read.rest
       /\ \E line \in { TrimSpace(read.bytes) } :
            /\ LoopStep(line) = "dispatch"
            /\ deliveries' = Append(deliveries,
                                [ msg  |-> PartialTranscript(line),
                                  line |-> Len(served) - Len(unread),
                                  at   |-> "send" ])
  /\ partialChanWait' = partialChanWait + 1
  /\ UNCHANGED << clientVars, pc, statusCode, served, retBody, retErr, exit, before,
                  closer, closes, consumer, received, fault >>

\* the final response
VoiceSearchFinalResponse ==
  /\ pc = "reading" /\ Running
  /\ UNCHANGED reqVars
  /\ \E read \in { ReadBytes(unread) } :
       /\ read.err = "nil"
       /\ unread' = read.rest
       /\ \E line \in { TrimSpace(read.bytes) } :
            /\ LoopStep(line) = "break"
            /\ Finish(line, "final response")
  /\ UNCHANGED << enableConversationState, RequestInfoInBody, statusCode, served,
                  partialChanWait, deliveries, closes, consumer, received, before >>

(***************************************************************************)
(* The goroutines.                                                         *)
(***************************************************************************)
\* Mutant of Deliver: the goroutines share one incoming, so that a delivery
\* sends the fields of the line decoded last.
DeliverSeesLatest(i) ==
  /\ Running
  /\ UNCHANGED reqVars
  /\ deliveries[i].at = "send"
  /\ ~chanClosed
  /\ consumer = "receiving"
  /\ received' = Append(received, deliveries[Len(deliveries)].msg)
  /\ deliveries' = [deliveries EXCEPT ![i].at = "done"]
  /\ consumer' = "running"
  /\ UNCHANGED << clientVars, callVars, partialChanWait, closer, closes, fault >>

\* partialTranscriptChan <- PartialTranscript{...}: the channel has no
\* buffer, the send completes when the consumer receives
Deliver(i) ==
  /\ Running
  /\ UNCHANGED reqVars
  /\ deliveries[i].at = "send"
  /\ ~chanClosed
  /\ consumer = "receiving"
  /\ received' = Append(received, deliveries[i].msg)
  /\ deliveries' = [deliveries EXCEPT ![i].at = "done"]
  /\ consumer' = "running"
  /\ UNCHANGED << clientVars, callVars, partialChanWait, closer, closes, fault >>

\* a send on a closed channel panics
SendOnClosed(i) ==
  /\ Running
  /\ UNCHANGED reqVars
  /\ deliveries[i].at = "send"
  /\ chanClosed
  /\ fault' = "send on closed channel"
  /\ UNCHANGED << clientVars, callVars, chanVars >>

\* partialChanWait.Done()
DeliveryDone(i) ==
  /\ Running
  /\ UNCHANGED reqVars
  /\ deliveries[i].at = "done"
  /\ deliveries' = [deliveries EXCEPT ![i].at = "end"]
  /\ partialChanWait' = partialChanWait - 1
  /\ UNCHANGED << clientVars, callVars, closer, closes, consumer, received, fault >>

\* Mutant of WaitReturns: the closing goroutine does not wait.
WaitReturnsAtOnce == TRUE

\* partialChanWait.Wait() returns
WaitReturns == partialChanWait = 0

CloserWait ==
  /\ Running
  /\ UNCHANGED reqVars
  /\ closer = "waiting"
  /\ WaitReturns
  /\ closer' = "close"
  /\ UNCHANGED << clientVars, callVars, partialChanWait, deliveries, closes, consumer,
                  received, fault >>

\* close(partialTranscriptChan)
CloserClose ==
  /\ Running
  /\ UNCHANGED reqVars
  /\ closer = "close"
  /\ closer' = "end"
  /\ IF chanClosed
     THEN fault' = "close of closed channel" /\ UNCHANGED closes
     ELSE closes' = closes + 1 /\ UNCHANGED fault
  /\ UNCHANGED << clientVars, callVars, partialChanWait, deliveries, consumer, received >>

\* for partial := range partialTranscripts: the consumer comes to the receive
ConsumerReceive ==
  /\ Running
  /\ UNCHANGED reqVars
  /\ consumer = "running"
  /\ consumer' = "receiving"
  /\ UNCHANGED << clientVars, callVars, partialChanWait, deliveries, closer, closes,
                  received, fault >>

\* for partial := range partialTranscripts ends when the channel is closed
ConsumerEnd ==
  /\ Running
  /\ UNCHANGED reqVars
  /\ consumer = "receiving"
  /\ chanClosed
  /\ consumer' = "ended"
  /\ UNCHANGED << clientVars, callVars, partialChanWait, deliveries, closer, closes,
                  received, fault >>

Helpers ==
  \/ EnableConversationState
  \/ DisableConversationState
  \/ ClearConversationState
  \/ \E s \in ConversationStates : SetConversationState(s)
  \/ SetRequestInfoInBody

VoiceSearch(bodies, mappings, keys, times) ==
  \/ VoiceSearchBuildFails
  \/ VoiceSearchBuildFailsNilRequest
  \/ VoiceSearchDoFails(mappings, keys, times)
  \/ VoiceSearchDo(bodies, mappings, keys, times)
  \/ VoiceSearchReadError
  \/ VoiceSearchEOF
  \/ VoiceSearchSkipLine
  \/ VoiceSearchDispatch
  \/ VoiceSearchFinalResponse

Goroutines ==
  \/ \E i \in 1..Len(deliveries) : Deliver(i) \/ DeliveryDone(i) \/ SendOnClosed(i)
  \/ CloserWait
  \/ CloserClose
  \/ ConsumerReceive
  \/ ConsumerEnd

Next == Helpers \/ VoiceSearch(Bodies, {NoFields}, {ClientKey}, {Now}) \/ Goroutines

Spec == Init /\ [][Next]_vars

(***************************************************************************)
(* Client.TextSearch: one step of the caller's goroutine, with no channel  *)
(* and no goroutine of its own.                                            *)
(***************************************************************************)
TextReturn(body, err, how) ==
  /\ pc' = "returned"
  /\ retBody' = body
  /\ retErr' = err
  /\ exit' = how

TextPanic(what, how) ==
  /\ pc' = "panicked"
  /\ fault' = what
  /\ exit' = how
  /\ UNCHANGED << retBody, retErr >>

\* BuildRequest fails for a request with no context and no extra headers
TextSearchBuildFails ==
  /\ pc = "idle" /\ Running
  /\ before' = conversationState
  /\ tracked' = enableConversationState /\ untouched' = TRUE
  /\ \E cause \in BuildErrors : TextReturn(<<>>, <<cause>>, "build")
  /\ UNCHANGED << clientVars, statusCode, served, unread, chanVars, fault, requestInfo,
                  calls, parsed, request, otherVars >>

\* BuildRequest fails for a request with a context or with extra headers:
\* req is nil, and req.WithContext or req.Header dereferences it
TextSearchBuildFailsNilRequest ==
  /\ pc = "idle" /\ Running
  /\ before' = conversationState
  /\ tracked' = enableConversationState /\ untouched' = TRUE
  /\ TextPanic("nil pointer dereference", "build")
  /\ UNCHANGED << clientVars, statusCode, served, unread, chanVars, requestInfo, calls,
                  parsed, request, otherVars >>

\* c.HttpClient.Do(req) fails
TextSearchDoFails(mappings, keys, times) ==
  /\ pc = "idle" /\ Running
  /\ before' = conversationState
  /\ tracked' = enableConversationState /\ untouched' = TRUE
  /\ \E fields \in mappings, key \in keys, now \in times :
       \E req \in { BuildRequest(fields, Client(key), now) } :
         /\ req.err = "nil"
         /\ request' = req
         /\ requestInfo' = req.requestInfo
  /\ UNCHANGED otherVars
  /\ TextReturn(<<>>, << "failed to successfully run request" >>, "transport")
  /\ UNCHANGED << clientVars, statusCode, served, unread, chanVars, fault, calls, parsed >>

\* ioutil.ReadAll(resp.Body) fails
TextSearchReadFails(mappings, keys, times) ==
  /\ pc = "idle" /\ Running
  /\ before' = conversationState
  /\ tracked' = enableConversationState /\ untouched' = TRUE
  /\ \E fields \in mappings, key \in keys, now \in times :
       \E req \in { BuildRequest(fields, Client(key), now) } :
         /\ req.err = "nil"
         /\ request' = req
         /\ requestInfo' = req.requestInfo
  /\ UNCHANGED otherVars
  /\ TextReturn(<<>>, << "failed to read body" >>, "read error")
  /\ UNCHANGED << clientVars, statusCode, served, unread, chanVars, fault, calls, parsed >>

\* Mutant of TextFinish: the conversation state of the body is stored also
\* when conversation tracking is disabled.
TextFinishStoresUntracked(body, status) ==
  IF status >= 400
  THEN /\ TextReturn(body, << "error response" >>, "body")
       /\ UNCHANGED << conversationState, fault >>
  ELSE LET new == ParseConversationState(body) IN
       CASE new.kind = "ok" ->
              /\ conversationState' = new.state
              /\ TextReturn(body, <<>>, "body")
              /\ UNCHANGED fault
         [] new.kind = "error" ->
              /\ TextReturn(body,
                            << "unable to parse new conversation state from response",
                               new.msg >>, "body")
              /\ UNCHANGED << conversationState, fault >>
         [] new.kind = "panic" ->
              /\ TextPanic("interface conversion", "body")
              /\ UNCHANGED conversationState

\* the statements of TextSearch after the body was read
TextFinish(body, status) ==
  IF status >= 400
  THEN /\ TextReturn(body, << "error response" >>, "body")
       /\ UNCHANGED << conversationState, fault >>
  ELSE IF enableConversationState
  THEN LET new == ParseConversationState(body) IN
       CASE new.kind = "ok" ->
              /\ conversationState' = new.state
              /\ TextReturn(body, <<>>, "body")
              /\ UNCHANGED fault
         [] new.kind = "error" ->
              /\ TextReturn(body,
                            << "unable to parse new conversation state from response",
                               new.msg >>, "body")
              /\ UNCHANGED << conversationState, fault >>
         [] new.kind = "panic" ->
              /\ TextPanic("interface conversion", "body")
              /\ UNCHANGED conversationState
  ELSE /\ TextReturn(body, <<>>, "body")
       /\ UNCHANGED << conversationState, fault >>

\* the response is read whole: one of the given bodies
TextSearchDo(bodies, mappings, keys, times) ==
  /\ pc = "idle" /\ Running
  /\ before' = conversationState
  /\ tracked' = enableConversationState /\ untouched' = TRUE
  /\ \E fields \in mappings, key \in keys, now \in times :
       \E req \in { BuildRequest(fields, Client(key), now) } :
         /\ req.err = "nil"
         /\ request' = req
         /\ requestInfo' = req.requestInfo
  /\ UNCHANGED otherVars
  /\ \E body \in bodies, status \in StatusCodes :
       /\ served' = body
       /\ unread' = <<>>
       /\ statusCode' = status
       /\ TextFinish(body, status)
  /\ UNCHANGED << enableConversationState, RequestInfoInBody, chanVars, calls, parsed >>

\* BuildRequest panics: a language field of the request is no string (or an
\* entry of a nil map is assigned to)
TextSearchBuildPanics(mappings, keys, times) ==
  /\ pc = "idle" /\ Running
  /\ before' = conversationState
  /\ tracked' = enableConversationState /\ untouched' = TRUE
  /\ \E fields \in mappings, key \in keys, now \in times :
       BuildRequest(fields, Client(key), now).err = "panic"
  /\ TextPanic("interface conversion", "build")
  /\ UNCHANGED << clientVars, statusCode, served, unread, chanVars, requestInfo, calls,
                  parsed, request, otherVars >>

VoiceSearchBuildPanics(mappings, keys, times) ==
  /\ pc = "idle" /\ Running
  /\ tracked' = enableConversationState /\ untouched' = TRUE
  /\ UNCHANGED << requestInfo, calls, parsed, request, otherVars >>
  /\ ForceRequestInfoInHeader
  /\ before' = conversationState
  /\ \E fields \in mappings, key \in keys, now \in times :
       BuildRequest(fields, [Client(key) EXCEPT !.RequestInfoInBody = FALSE], now).err
         = "panic"
  /\ Panic("interface conversion", "build")
  /\ UNCHANGED << enableConversationState, conversationState, statusCode, served, unread,
                  partialChanWait, deliveries, closes, consumer, received >>

TextSearch(bodies, mappings, keys, times) ==
  \/ TextSearchBuildFails
  \/ TextSearchBuildFailsNilRequest
  \/ TextSearchDoFails(mappings, keys, times)
  \/ TextSearchReadFails(mappings, keys, times)
  \/ TextSearchDo(bodies, mappings, keys, times)

(***************************************************************************)
(* A client used for several requests, one after the other, and a caller   *)
(* that hands the body a call returned to the helpers of the SDK.          *)
(***************************************************************************)
\* the calls of one client
MaxCalls == 2

\* the caller goes on to its next request, with a new channel and a new
\* goroutine that receives from it; what is left of the earlier call's
\* goroutines works on the earlier channel
NextCall ==
  /\ pc = "returned" /\ Running
  /\ calls + 1 < MaxCalls
  /\ calls' = calls + 1
  /\ pc' = "idle"
  /\ statusCode' = 0 /\ served' = <<>> /\ unread' = <<>> /\ exit' = "none"
  /\ partialChanWait' = 0 /\ deliveries' = <<>> /\ closer' = "none" /\ closes' = 0
  /\ consumer' = "running" /\ received' = <<>>
  /\ parsed' = <<>>
  /\ earlier' = IF closer = "none" THEN "text" ELSE "voice"
  /\ UNCHANGED << clientVars, retBody, retErr, before, fault, requestInfo, tracked,
                  untouched, request, authVars, made, streamVars >>

\* what a helper gave for the body: its name, the body and its result; a
\* panic in it ends the caller's goroutine
Parsed(by, result) ==
  /\ parsed' = [by |-> by, body |-> retBody, result |-> result]
  /\ IF result.kind = "panic"
     THEN pc' = "panicked" /\ fault' = "panic in " \o by
     ELSE UNCHANGED << pc, fault >>
  /\ UNCHANGED << clientVars, statusCode, served, unread, retBody, retErr, exit, before,
                  chanVars, requestInfo, calls, tracked, untouched, request, otherVars >>

\* the caller calls ParseWrittenResponse or ParseSpokenResponse with the body
\* that the call returned
CallerParsesWritten ==
  /\ pc = "returned" /\ Running /\ parsed = <<>>
  /\ Parsed("ParseWrittenResponse", ParseWrittenResponse(retBody))

CallerParsesSpoken ==
  /\ pc = "returned" /\ Running /\ parsed = <<>>
  /\ Parsed("ParseSpokenResponse", ParseSpokenResponse(retBody))

\* the response bodies of these requests: the final responses of the server
\* (with results, with an error, with members missing), a body that is no
\* JSON and an empty one
TerminalTexts ==
  { <<"T">>, <<"TB">>, <<"TN">>, <<"F">>, <<"FN">>, <<"U">>, <<"N0">>, <<"NM">>,
    <<"AM">>, <<"AE">>, <<Junk>>, <<>> }

TextBodies == TerminalTexts \cup { <<"T", NL>>, <<"F", NL>> }

VoiceBodies ==
  { t \o <<NL>> : t \in { <<"T">>, <<"TN">>, <<"F">>, <<"FN">>, <<"AE">> } }
    \cup { <<"TB">>, Lines(<< <<Digit>>, <<"PA">>, <<"T">> >>) }

NextClient ==
  \/ Helpers
  \/ VoiceSearch(VoiceBodies, FieldMappings, {ClientKey}, {Now})
  \/ TextSearch(TextBodies, FieldMappings, {ClientKey}, {Now})
  \/ Goroutines
  \/ NextCall
  \/ CallerParsesWritten
  \/ CallerParsesSpoken

ClientSpec == Init /\ [][NextClient]_vars

(***************************************************************************)
(* The request of a client: one call with any field mapping and client key *)
(* of the model, made in any second and answered with one of a few         *)
(* responses.  The goroutines of the call, which do not touch the request, *)
(* are not scheduled.                                                      *)
(***************************************************************************)
RequestBodies == { <<"TB">>, Lines(<< <<Digit>>, <<"PA">>, <<"T">> >>) }

TextRequestBodies == { <<"TB">> }

NextRequest ==
  \/ Helpers
  \/ VoiceSearch(RequestBodies, RequestMappings, ClientKeys, Times)
  \/ VoiceSearchBuildPanics(LanguageMappings, ClientKeys, Times)
  \/ TextSearch(TextRequestBodies, RequestMappings, ClientKeys, Times)
  \/ TextSearchBuildPanics(LanguageMappings, ClientKeys, Times)

RequestSpec == Init /\ [][NextRequest]_vars

(***************************************************************************)
(* generateAuthValues on its own: calls with the client keys, user IDs and *)
(* request IDs of the model, one after another, each reading the time,     *)
(* which does not go back.                                                 *)
(***************************************************************************)
MaxAuths == 2
UserIDs == { UserID, "guest" }
RequestIDs == { RequestID, "request2" }

programVars ==
  << clientVars, callVars, chanVars, fault, requestInfo, calls, tracked, untouched,
     parsed, request, earlier >>

GenerateAuthValues ==
  /\ Len(auths) < MaxAuths
  /\ \E clientKey \in ClientKeys, userID \in UserIDs, requestID \in RequestIDs,
        now \in clock..(Now + MaxTime) :
       /\ clock' = now
       /\ auths' = Append(auths,
                     [ clientID |-> ClientID, clientKey |-> clientKey,
                       userID |-> userID, requestID |-> requestID,
                       result |-> generateAuthValues(ClientID, clientKey, userID,
                                                     requestID, now) ])
  /\ UNCHANGED << programVars, escaped, made, streamVars >>

AuthSpec == Init /\ [][GenerateAuthValues]_vars

(***************************************************************************)
(* escapeBase64Url and unescapeBase64Url on their own, applied to every    *)
(* text of up to MaxText characters and the other function to the result.  *)
(***************************************************************************)
MaxText == 3
TextChars == { "A", "+", "/", "-", "_" }
Texts == SeqsUpTo(TextChars, MaxText)

EscapeBase64Url ==
  /\ \E input \in Texts :
       escaped' = [ fn |-> "escapeBase64Url", input |-> input,
                    output |-> escapeBase64Url(input),
                    back |-> unescapeBase64Url(escapeBase64Url(input)) ]
  /\ UNCHANGED << programVars, clock, auths, made, streamVars >>

UnescapeBase64Url ==
  /\ \E input \in Texts :
       escaped' = [ fn |-> "unescapeBase64Url", input |-> input,
                    output |-> unescapeBase64Url(input),
                    back |-> escapeBase64Url(unescapeBase64Url(input)) ]
  /\ UNCHANGED << programVars, clock, auths, made, streamVars >>

EscapeSpec == Init /\ [][EscapeBase64Url \/ UnescapeBase64Url]_vars

(***************************************************************************)
(* NewRequest on its own, for a TextRequest and for a VoiceRequest with    *)
(* every URL and every query of the model.                                 *)
(***************************************************************************)
MaxQuery == 3
QueryChars == { "a", " ", "/", "&" }
Queries == SeqsUpTo(QueryChars, MaxQuery)
URLs == { "", "http://test.com/v1", "http://test.com/%zz" }

TextNewRequest ==
  /\ \E URL \in URLs, Query \in Queries :
       made' = [ kind |-> "text", URL |-> URL, Query |-> Query,
                 result |-> TextRequestNewRequest(URL, Query) ]
  /\ UNCHANGED << programVars, authVars, streamVars >>

VoiceNewRequest ==
  /\ \E URL \in URLs :
       made' = [ kind |-> "voice", URL |-> URL, Query |-> <<>>,
                 result |-> VoiceRequestNewRequest(URL) ]
  /\ UNCHANGED << programVars, authVars, streamVars >>

NewRequestSpec == Init /\ [][TextNewRequest \/ VoiceNewRequest]_vars

(***************************************************************************)
(* Fairness.  The Go scheduler runs every goroutine that can run.          *)
(***************************************************************************)
NextFewer ==
  Helpers \/ VoiceSearch(FewerBodies, {NoFields}, {ClientKey}, {Now}) \/ Goroutines

\* every goroutine is scheduled, and the consumer keeps receiving
FairSpec ==
  /\ Init /\ [][NextFewer]_vars
  /\ WF_vars(\E i \in 1..Len(deliveries) : Deliver(i))
  /\ WF_vars(\E i \in 1..Len(deliveries) : DeliveryDone(i))
  /\ WF_vars(CloserWait)
  /\ WF_vars(CloserClose)
  /\ WF_vars(ConsumerReceive)
  /\ WF_vars(ConsumerEnd)

\* the response arrives and the goroutine that called VoiceSearch is
\* scheduled; nothing is assumed of the consumer and of the other goroutines
VoiceSearchReads ==
  VoiceSearchEOF \/ VoiceSearchSkipLine \/ VoiceSearchDispatch \/ VoiceSearchFinalResponse

CallerFairSpec == Init /\ [][NextFewer]_vars /\ WF_vars(VoiceSearchReads)

(***************************************************************************)
(* StreamAudio of the example: a goroutine writes the audio file into the  *)
(* pipe that is the body of the request, one chunk a second, until the     *)
(* file ends or the channel done hands it a value; a goroutine ranges over *)
(* the partial transcripts and, at the first one that is safe to stop at,  *)
(* sends on done and returns; then VoiceSearch is called.                  *)
(***************************************************************************)
\* the reads of the file that a file of the model takes
MaxChunks == 2

\* the partial transcript received last is safe to stop the audio at
SafeToStop ==
  received # <<>> /\ received[Len(received)].SafeToStopAudio = "true"

callerVars ==
  << clientVars, callVars, fault, requestInfo, calls, tracked, untouched, parsed,
     request, authVars, made, earlier >>

\* go func(wp *io.PipeWriter) {...}(wp) and go func() {...}(): the file has
\* one chunk or more
StreamAudioStart ==
  /\ pc = "idle" /\ writer = "none"
  /\ writer' = "select"
  /\ \E chunks \in 1..MaxChunks : audio' = [ chunks |-> chunks, loc |-> 0 ]
  /\ UNCHANGED << callerVars, chanVars >>

\* wp.Write returns: the transport reads the body of the request that was
\* sent, or has closed it
Written == pc # "idle" /\ exit # "build"

\* case <-done: the consumer is at its send on done
DoneReady == consumer = "signalling"

\* default: f.ReadAt fills the buffer; wp.Write, time.Sleep
WriterWrites ==
  /\ Running
  /\ writer = "select" /\ ~DoneReady
  /\ audio.loc + 1 < audio.chunks /\ Written
  /\ audio' = [audio EXCEPT !.loc = @ + 1]
  /\ UNCHANGED << writer, callerVars, chanVars >>

\* default: f.ReadAt returns io.EOF; wp.Write, return and the deferred
\* wp.Close()
WriterEOF ==
  /\ Running
  /\ writer = "select" /\ ~DoneReady
  /\ audio.loc + 1 = audio.chunks /\ Written
  /\ audio' = [audio EXCEPT !.loc = @ + 1]
  /\ writer' = "ended"
  /\ UNCHANGED << callerVars, chanVars >>

\* case <-done: return and the deferred wp.Close(); the consumer's send has
\* completed and the consumer returns
WriterStops ==
  /\ Running
  /\ writer = "select" /\ DoneReady
  /\ writer' = "ended"
  /\ consumer' = "ended"
  /\ UNCHANGED << audio, callerVars, partialChanWait, deliveries, closer, closes,
                  received >>

\* for partial := range partialTranscripts: the consumer comes to the
\* receive, at first and after a partial transcript that is not safe to stop
\* at
StreamConsumerReceive ==
  /\ Running
  /\ consumer = "running" /\ ~SafeToStop
  /\ consumer' = "receiving"
  /\ UNCHANGED << streamVars, callerVars, partialChanWait, deliveries, closer, closes,
                  received >>

\* done <- true: the consumer comes to the send, which has no buffer
StreamConsumerSignals ==
  /\ Running
  /\ consumer = "running" /\ SafeToStop
  /\ consumer' = "signalling"
  /\ UNCHANGED << streamVars, callerVars, partialChanWait, deliveries, closer, closes,
                  received >>

Deliveries == \E i \in 1..Len(deliveries) : Deliver(i) \/ DeliveryDone(i) \/ SendOnClosed(i)

\* the responses of the server: partial transcripts before and after the
\* one that is safe to stop at, and the final result; one whose DurationMS
\* is no time.Duration
StreamBodies ==
  { Lines(<< <<"PA">>, <<"PB">>, <<"PA">>, <<"T">> >>),
    Lines(<< <<"PB">>, <<"T">> >>),
    Lines(<< <<"PA">>, <<"T">> >>),
    Lines(<< <<"PB">>, <<"PB">> >>),
    Lines(<< <<"PX">>, <<Digit>>, <<SP, "PA">>, <<"T">> >>) }

StreamFields == { NilMap }
StreamKeys == { ClientKey }
StreamTimes == { Now }

StreamVoiceSearch ==
  /\ writer # "none"
  /\ VoiceSearch(StreamBodies, StreamFields, StreamKeys, StreamTimes)

NextStream ==
  \/ StreamAudioStart
  \/ StreamVoiceSearch
  \/ Deliveries
  \/ CloserWait
  \/ CloserClose
  \/ StreamConsumerReceive
  \/ StreamConsumerSignals
  \/ ConsumerEnd
  \/ WriterWrites
  \/ WriterEOF
  \/ WriterStops

StreamSpec == Init /\ [][NextStream]_vars

\* every goroutine is scheduled and the response arrives
StreamFairSpec ==
  /\ StreamSpec
  /\ WF_vars(VoiceSearchReads)
  /\ WF_vars(\E i \in 1..Len(deliveries) : Deliver(i))
  /\ WF_vars(\E i \in 1..Len(deliveries) : DeliveryDone(i))
  /\ WF_vars(CloserWait)
  /\ WF_vars(CloserClose)
  /\ WF_vars(StreamConsumerReceive)
  /\ WF_vars(StreamConsumerSignals)
  /\ WF_vars(ConsumerEnd)
  /\ WF_vars(WriterWrites)
  /\ WF_vars(WriterEOF)
  /\ WF_vars(WriterStops)

(***************************************************************************)
(* The response body as the lines a reader of it sees.                     *)
(***************************************************************************)
\* the lines of a body: the trimmed text of each, where it starts and ends
\* in the body, and whether a newline ends it
RECURSIVE LinesFrom(_, _)
LinesFrom(s, at) ==
  IF s = <<>> THEN <<>>
  ELSE LET r == ReadBytes(s) IN
       << [ text |-> TrimSpace(r.bytes), at |-> at, end |-> at + Len(r.bytes),
            newline |-> r.err = "nil" ] >>
       \o LinesFrom(r.rest, at + Len(r.bytes))

LinesOf(s) == LinesFrom(s, 0)

IsObject(l) == Len(l) = 1 /\ l[1] \in JsonChars
FormatOf(l) == IF "Format" \in DOMAIN Json[l[1]] THEN Json[l[1]]["Format"] ELSE ""
IsPartialLine(l) == IsObject(l) /\ FormatOf(l) \in {FormatPartial, FormatPartialLegacy}
IsResultLine(l) == IsObject(l) /\ FormatOf(l) = FormatResult
IsInteger(l) == l # <<>> /\ \A i \in 1..Len(l) : l[i] = Digit
IsMalformedLine(l) == l # <<>> /\ ~IsInteger(l) /\ ~IsObject(l)
DurationFits(l) ==
  LET ms == Json[l[1]]["DurationMS"] IN
  /\ l[1] \notin Mistyped
  /\ ms[1] < 9223 \/ (ms[1] = 9223 /\ ms[2] <= 372036854)

\* the first newline-terminated final-result line of a body (0: there is none)
FirstResult(ls) ==
  LET found == { k \in 1..Len(ls) : ls[k].newline /\ IsResultLine(ls[k].text) } IN
  IF found = {} THEN 0 ELSE CHOOSE k \in found : \A j \in found : k <= j

\* the partial transcripts of the lines 1..n of a body, in the order of the lines
RECURSIVE PartialsOf(_, _)
PartialsOf(ls, n) ==
  IF n = 0 THEN <<>>
  ELSE IF IsPartialLine(ls[n].text) /\ DurationFits(ls[n].text)
       THEN Append(PartialsOf(ls, n - 1), PartialTranscript(ls[n].text))
       ELSE PartialsOf(ls, n - 1)

Count(q, m) == Cardinality({ i \in 1..Len(q) : q[i] = m })
SubBag(a, b) == \A i \in 1..Len(a) : Count(a, a[i]) <= Count(b, a[i])

Terminated == pc \in {"returned", "panicked"}
ConsumedLen == Len(served) - Len(unread)
Dispatched == [ i \in 1..Len(deliveries) |-> deliveries[i].msg ]

\* a body of partial-transcript lines followed by one final-result line
PartialsThenResult(ls) ==
  /\ FirstResult(ls) > 0
  /\ \A j \in 1..(FirstResult(ls) - 1) : IsPartialLine(ls[j].text)

(***************************************************************************)
(* C1.  The channel is never closed while a dispatched delivery is pending *)
(* and no goroutine sends on the closed channel: the counter of the        *)
(* WaitGroup is the number of deliveries that have not completed, the      *)
(* closing goroutine closes only when it is zero, and it exists only when  *)
(* VoiceSearch has left the read loop, so that nothing is dispatched later.*)
(***************************************************************************)
C1_CloseAfterDeliveries ==
  /\ partialChanWait = Cardinality({ i \in 1..Len(deliveries) : deliveries[i].at # "end" })
  /\ closer \in {"close", "end"} => partialChanWait = 0
  /\ chanClosed => \A i \in 1..Len(deliveries) : deliveries[i].at = "end"
  /\ closer # "none" => Terminated
  /\ fault # "send on closed channel"

C1_Witness == chanClosed /\ Len(deliveries) >= 2 /\ Len(received) = Len(deliveries)

(***************************************************************************)
(* C2.  As claimed: for a body of N partial-transcript lines followed by a *)
(* final-result line, the consumer has received exactly N partials when it *)
(* sees the channel closed.                                                *)
(***************************************************************************)
C2_ExactlyNPartials ==
  LET ls == LinesOf(served) IN
  (exit = "final response" /\ consumer = "ended" /\ PartialsThenResult(ls))
    => Len(received) = FirstResult(ls) - 1

(***************************************************************************)
(* C2, amended.  For such a body the consumer receives, in some order, the *)
(* partials of exactly those lines whose DurationMS is a time.Duration     *)
(* (at most 9223372036854 ms): never another one, none of them twice, and  *)
(* all of them before it sees the channel closed.                          *)
(***************************************************************************)
C2_ExactlyTheConvertiblePartials ==
  LET ls == LinesOf(served)
      expected == PartialsOf(ls, FirstResult(ls) - 1) IN
  (pc # "idle" /\ PartialsThenResult(ls))
    => /\ SubBag(received, expected)
       /\ (exit = "final response" /\ consumer = "ended") => Len(received) = Len(expected)

C2_Witness ==
  /\ exit = "final response" /\ consumer = "ended" /\ PartialsThenResult(LinesOf(served))
  /\ Len(received) = 2 /\ received[1] # received[2]

(***************************************************************************)
(* C3.  As claimed: the consumer receives the partials in the order in     *)
(* which their lines were read.                                            *)
(***************************************************************************)
C3_ReceivedInReadOrder ==
  \A k \in 1..Len(received) : received[k] = deliveries[k].msg

(***************************************************************************)
(* C4.  Whenever VoiceSearch returns, the channel is eventually closed,    *)
(* and it is never closed twice (every goroutine being scheduled and the   *)
(* consumer receiving).                                                    *)
(***************************************************************************)
C4_ClosedOnceAfterReturn ==
  /\ [](closes <= 1 /\ fault # "close of closed channel")
  /\ [](pc = "returned" => <>(closes = 1))

C4_Witness == pc = "returned" /\ exit = "read error" /\ closes = 1 /\ Len(deliveries) >= 1

(***************************************************************************)
(* C5.  The read loop never waits for the consumer: once the response is   *)
(* there, VoiceSearch comes to its end whatever the consumer does, also    *)
(* when it never receives.                                                 *)
(***************************************************************************)
C5_ReadLoopEnds == [](pc = "reading" => <>Terminated)

C5_Witness ==
  /\ pc = "returned" /\ exit = "final response" /\ retBody = <<"T">>
  /\ Len(deliveries) >= 2 /\ received = <<>> /\ consumer = "running"

(***************************************************************************)
(* C6.  A final-result line stops the reading: nothing behind it is read,  *)
(* no line behind it is dispatched, and the body returned is its text.     *)
(***************************************************************************)
C6_StopsAtFinalResponse ==
  LET ls == LinesOf(served)
      k == FirstResult(ls) IN
  k > 0 =>
    /\ ConsumedLen <= ls[k].end
    /\ \A i \in 1..Len(deliveries) : deliveries[i].line < ls[k].at
    /\ ConsumedLen = ls[k].end => (pc = "returned" /\ exit = "final response"
                                   /\ retBody = ls[k].text)

C6_Witness ==
  LET ls == LinesOf(served)
      k == FirstResult(ls) IN
  /\ pc = "returned" /\ exit = "final response" /\ k > 0
  /\ \E j \in (k + 1)..Len(ls) : IsPartialLine(ls[j].text) /\ DurationFits(ls[j].text)
  /\ consumer = "ended"

(***************************************************************************)
(* C7.  As claimed: at the end of input with no final-result line read,    *)
(* the body is the last non-blank line of the stream.                      *)
(***************************************************************************)
LastNonBlank(ls) ==
  LET found == { k \in 1..Len(ls) : ls[k].text # <<>> } IN
  IF found = {} THEN <<>>
  ELSE ls[CHOOSE k \in found : \A j \in found : j <= k].text

C7_BodyIsLastNonBlankLine ==
  (pc = "returned" /\ exit = "EOF") => retBody = LastNonBlank(LinesOf(served))

(***************************************************************************)
(* C8.  A read error other than io.EOF ends VoiceSearch with an error and  *)
(* an empty body, and the conversation state stays what it was.            *)
(***************************************************************************)
C8_ReadErrorAborts ==
  exit = "read error" =>
    /\ pc = "returned"
    /\ retErr # <<>>
    /\ retBody = <<>>
    /\ conversationState = before

C8_Witness ==
  /\ exit = "read error" /\ enableConversationState /\ before = "cs0"
  /\ statusCode = 200 /\ Len(deliveries) >= 1 /\ ConsumedLen > 0
  /\ ReadBytes(unread).bytes = <<"T", NL>>

(***************************************************************************)
(* C9.  As claimed: an empty response body with a status below 400 gives   *)
(* no partial, an empty body and a non-nil error.                          *)
(***************************************************************************)
C9_EmptyBodyIsAnError ==
  (pc = "returned" /\ exit = "EOF" /\ served = <<>> /\ statusCode < 400)
    => (deliveries = <<>> /\ retBody = <<>> /\ retErr # <<>>)

(***************************************************************************)
(* C10.  A line that is not JSON (nor blank, nor an integer) in front of   *)
(* the final-result line does not end the reading: the partials of the     *)
(* lines around it are dispatched in the order of the lines and received,  *)
(* and the final-result line is the body.                                  *)
(***************************************************************************)
C10_MalformedLineTolerated ==
  LET ls == LinesOf(served)
      k == FirstResult(ls) IN
  (k > 0 /\ \E j \in 1..(k - 1) : IsMalformedLine(ls[j].text) /\ ls[j].end <= ConsumedLen)
    => /\ exit \in {"none", "read error", "final response"}
       /\ exit = "none" => pc = "reading"
       /\ exit = "final response" =>
            /\ retBody = ls[k].text
            /\ Dispatched = PartialsOf(ls, k - 1)
            /\ consumer = "ended" => Len(received) = Len(Dispatched)

C10_Witness ==
  /\ served = Lines(<< <<"PA">>, <<Junk>>, <<SP, "PB">>, <<"T">>, <<"PA">> >>)
  /\ exit = "final response" /\ retBody = <<"T">>
  /\ consumer = "ended" /\ Len(received) = 2

(***************************************************************************)
(* C11.  A blank line and a line that is a decimal integer, each ended by  *)
(* a newline, are skipped: the step that reads one leaves VoiceSearch in   *)
(* its read loop with nothing dispatched and nothing returned, no delivery *)
(* is of such a line, and a body that is returned is the text of the line  *)
(* read last, which is no integer line ended by a newline.                 *)
(***************************************************************************)
IsSkippedLine(l) == l.newline /\ (l.text = <<>> \/ IsInteger(l.text))

C11_BlankAndIntegerSkipped ==
  /\ [](LET ls == LinesOf(served) IN
        /\ \A i \in 1..Len(deliveries) : \A k \in 1..Len(ls) :
             ls[k].at = deliveries[i].line => ~IsSkippedLine(ls[k])
        /\ (pc = "returned" /\ retBody # <<>>) =>
             \E k \in 1..Len(ls) : /\ ls[k].end = ConsumedLen
                                   /\ ls[k].text = retBody
                                   /\ ~IsSkippedLine(ls[k]))
  /\ [][ (pc = "reading" /\ unread' # unread) =>
          LET read == ReadBytes(unread)
              line == TrimSpace(read.bytes) IN
          (read.err = "nil" /\ (line = <<>> \/ IsInteger(line))) =>
            /\ pc' = "reading" /\ exit' = exit /\ unread' = read.rest
            /\ deliveries' = deliveries /\ retBody' = retBody /\ retErr' = retErr ]_vars

C11_Witness ==
  LET ls == LinesOf(served) IN
  /\ pc = "returned" /\ retBody = <<"T">> /\ retErr = <<>>
  /\ \E j, k \in 1..Len(ls) :
       /\ ls[j].newline /\ ls[j].text = <<>>
       /\ ls[k].newline /\ IsInteger(ls[k].text)

(***************************************************************************)
(* C12.  As claimed: of the lines ended by a newline that are JSON objects *)
(* and that VoiceSearch has read, the dispatched ones are those whose      *)
(* Format is one of the two partial-transcript identifiers, and the loop   *)
(* has ended with the final response at the one whose Format is the        *)
(* final-result identifier, and at no other.                               *)
(***************************************************************************)
WasRead(l) == l.newline /\ l.end <= ConsumedLen
WasDispatched(l) == \E i \in 1..Len(deliveries) : deliveries[i].line = l.at
EndedLoop(l) == l.end = ConsumedLen /\ exit = "final response" /\ Terminated

C12_FormatDecides ==
  LET ls == LinesOf(served) IN
  \A k \in 1..Len(ls) : (WasRead(ls[k]) /\ IsObject(ls[k].text)) =>
    /\ WasDispatched(ls[k]) <=> IsPartialLine(ls[k].text)
    /\ EndedLoop(ls[k]) <=> IsResultLine(ls[k].text)

(***************************************************************************)
(* C12, amended.  The same of the lines that json.Unmarshal decodes into   *)
(* houndServerPartialTranscript (objects whose members have the types of   *)
(* its fields); of these the dispatched ones are those with a              *)
(* partial-transcript Format and a DurationMS that is a time.Duration, the *)
(* loop ends at the one with the final-result Format, and at every other   *)
(* one the reading continues.  A line that does not decode is never        *)
(* dispatched and never ends the loop.                                     *)
(***************************************************************************)
Decodes(l) == IsObject(l) /\ l[1] \notin Mistyped

C12_FormatOfDecodedLineDecides ==
  LET ls == LinesOf(served) IN
  \A k \in 1..Len(ls) : WasRead(ls[k]) =>
    IF Decodes(ls[k].text)
    THEN /\ WasDispatched(ls[k]) <=> (IsPartialLine(ls[k].text) /\ DurationFits(ls[k].text))
         /\ EndedLoop(ls[k]) <=> IsResultLine(ls[k].text)
    ELSE ~WasDispatched(ls[k]) /\ ~EndedLoop(ls[k])

C12_Witness ==
  /\ served = Lines(<< <<"PW">>, <<"E">>, <<"PA">>, <<"T">> >>)
  /\ exit = "final response" /\ retBody = <<"T">>
  /\ Len(deliveries) = 1 /\ consumer = "ended" /\ Len(received) = 1

(***************************************************************************)
(* C13.  With conversation tracking enabled, a call that follows a call    *)
(* which returned no error, with no SetConversationState and no            *)
(* ClearConversationState between the two, sends in its request info the   *)
(* conversation state of the first result of the body that the earlier     *)
(* call returned.                                                          *)
(***************************************************************************)
\* AllResults[0].ConversationState of a body
StateOf(body) ==
  Member(Json[TrimSpace(body)[1]]["AllResults"][1], "ConversationState", "nil")

\* a step in which TextSearch or VoiceSearch builds its request
BuildsRequest == pc = "idle" /\ pc' # "idle" /\ exit' # "build"

C13_SecondCallSendsExtractedState ==
  [][ (/\ BuildsRequest
       /\ calls >= 1 /\ retErr = <<>>
       /\ tracked /\ enableConversationState /\ untouched)
      => Member(requestInfo', "ConversationState", "nil") = StateOf(retBody) ]_vars

C13_Witness ==
  /\ calls = 1 /\ pc = "returned" /\ retErr = <<>> /\ tracked
  /\ "ConversationState" \in DOMAIN requestInfo
  /\ requestInfo["ConversationState"] = "cs2"
  /\ conversationState = "cs1"

(***************************************************************************)
(* C14.  A call changes Client.conversationState only when conversation    *)
(* tracking is enabled and the call returns a nil error, and then to the   *)
(* conversation state of the body it returns; while the call reads, when   *)
(* it panics, when it returns an error and when tracking is disabled, the  *)
(* stored state is the state the client had when the call began.           *)
(***************************************************************************)
\* what is behind the last newline of a body
TailOf(s) ==
  LET nls == { i \in 1..Len(s) : s[i] = NL }
      last == IF nls = {} THEN 0 ELSE CHOOSE i \in nls : \A j \in nls : j <= i IN
  SubSeq(s, last + 1, Len(s))

\* the body a call comes to its last statements with: the whole response for
\* TextSearch, for VoiceSearch the line its read loop ended with
TerminalBody ==
  CASE exit = "body" -> served
    [] exit = "EOF" -> TrimSpace(TailOf(served))
    [] exit = "final response" ->
         LET ls == LinesOf(served) IN
         ls[CHOOSE k \in 1..Len(ls) : ls[k].end = ConsumedLen].text

\* the call has come to the statements behind the reading of the response
ReadResponse == exit \in { "body", "EOF", "final response" }

C14_StateChangesOnlyOnTrackedSuccess ==
  /\ pc = "reading" => conversationState = before
  /\ (pc = "panicked" /\ parsed = <<>>) => conversationState = before
  /\ pc = "returned" =>
       IF tracked /\ retErr = <<>>
       THEN ReadResponse /\ conversationState = StateOf(TerminalBody)
       ELSE conversationState = before

C14_Witness ==
  /\ pc = "returned" /\ tracked /\ retErr = <<>> /\ exit = "final response"
  /\ before = "cs0" /\ conversationState = "cs1" /\ retBody = <<"T">>

NotOKWithMessage(body) ==
  LET t == TrimSpace(body) IN
  /\ IsObject(t)
  /\ "Status" \in DOMAIN Json[t[1]]
  /\ Json[t[1]]["Status"] \notin { "OK", "Ok", "oK", "ok" }
  /\ "ErrorMessage" \in DOMAIN Json[t[1]]

ErrorMessageOf(body) == Json[TrimSpace(body)[1]]["ErrorMessage"]

\* the helper the caller used reported the ErrorMessage of the body
HelperSurfacesMessage ==
  (parsed # <<>> /\ NotOKWithMessage(parsed.body)) =>
     parsed.result = [kind |-> "error", msg |-> ErrorMessageOf(parsed.body)]

\* the call returned the body with an error caused by its ErrorMessage
CallSurfacesMessage ==
  /\ retErr # <<>>
  /\ retErr[Len(retErr)] = ErrorMessageOf(TerminalBody)
  /\ retBody = TerminalBody

C17_ErrorMessageSurfaces ==
  /\ HelperSurfacesMessage
  /\ (pc = "returned" /\ ReadResponse /\ tracked /\ NotOKWithMessage(TerminalBody))
       => CallSurfacesMessage

(***************************************************************************)
(* C17, amended.  The same, for the call only with a response status below *)
(* 400: with a status of 400 or more the body is returned with the error   *)
(* "error response" and its ErrorMessage is not looked at.                 *)
(***************************************************************************)
C17_ErrorMessageSurfacesBelow400 ==
  /\ HelperSurfacesMessage
  /\ (/\ pc = "returned" /\ ReadResponse /\ tracked /\ statusCode < 400
      /\ NotOKWithMessage(TerminalBody))
       => CallSurfacesMessage
  /\ (/\ pc = "returned" /\ ReadResponse /\ statusCode >= 400
      /\ NotOKWithMessage(TerminalBody))
       => retErr = << "error response" >> /\ retBody = TerminalBody

C17_Witness ==
  /\ pc = "returned" /\ tracked /\ statusCode < 400
  /\ served = << "F", NL >> /\ exit = "body" /\ retBody = << "F", NL >>
  /\ retErr = << "unable to parse new conversation state from response", "bad query" >>
  /\ parsed # <<>> /\ parsed.by = "ParseSpokenResponse"
  /\ parsed.result = [kind |-> "error", msg |-> "bad query"]

(***************************************************************************)
(* C18.  For a body that is a JSON object with expected members missing    *)
(* (no Status; a Status that is not OK and no ErrorMessage; no NumToReturn;*)
(* AllResults missing or empty with NumToReturn at least 1) the extraction *)
(* of the conversation state in a call and the helpers                     *)
(* ParseWrittenResponse and ParseSpokenResponse return an error: the call  *)
(* returns with a non-nil error and no helper panics.                      *)
(***************************************************************************)
LacksFields(body) ==
  LET t == TrimSpace(body) IN
  /\ IsObject(t)
  /\ LET result == Json[t[1]] IN
     \/ "Status" \notin DOMAIN result
     \/ /\ result["Status"] \notin { "OK", "Ok", "oK", "ok" }
        /\ "ErrorMessage" \notin DOMAIN result
     \/ /\ result["Status"] \in { "OK", "Ok", "oK", "ok" }
        /\ \/ "NumToReturn" \notin DOMAIN result
           \/ /\ result["NumToReturn"] >= 1
              /\ Len(Member(result, "AllResults", <<>>)) = 0

C18_MissingFieldsAreErrors ==
  /\ (parsed # <<>> /\ LacksFields(parsed.body)) => parsed.result.kind = "error"
  /\ (/\ Terminated /\ ReadResponse /\ tracked /\ statusCode < 400
      /\ LacksFields(TerminalBody))
       => (pc = "panicked" => parsed # <<>>) /\ retErr # <<>>

ReservedFields ==
  [ TimeStamp |-> ToString(request'.auth.timeStamp), ClientID |-> ClientID,
    RequestID |-> RequestID,
    SDK |-> "Go", SDKVersion |-> "0.1",
    PartialTranscriptsDesired |-> "true", ObjectByteCountPrefix |-> "true" ]

C20_ReservedFieldsWin ==
  [][ BuildsRequest =>
        /\ \A k \in DOMAIN ReservedFields :
             k \in DOMAIN requestInfo' /\ requestInfo'[k] = ReservedFields[k]
        /\ \E fields \in FieldMappings :
             \A k \in DOMAIN fields \ (DOMAIN ReservedFields \cup {"ConversationState"}) :
               fields[k] # "nil" => k \in DOMAIN requestInfo' /\ requestInfo'[k] = fields[k]
    ]_vars

C20_Witness ==
  /\ pc = "returned" /\ exit \notin { "none", "build" }
  /\ "Latitude" \in DOMAIN requestInfo /\ requestInfo["Latitude"] = OwnFields["Latitude"]
  /\ OwnFields["SDK"] = "Rust" /\ requestInfo["SDK"] = "Go"
  /\ OwnFields["ClientID"] = "other" /\ requestInfo["ClientID"] = ClientID
  /\ requestInfo["PartialTranscriptsDesired"] = "true"

(***************************************************************************)
(* C21.  createRequestInfo copies into the request info every extra field  *)
(* whose value is not nil and whose name is not one of the fields it sets  *)
(* itself, with its value, and no extra field whose value is nil: the      *)
(* request info has no member that is null and no member from elsewhere.   *)
(***************************************************************************)
ReservedNames ==
  { "TimeStamp", "ClientID", "RequestID", "SDK", "SDKVersion",
    "PartialTranscriptsDesired", "ObjectByteCountPrefix" }

C21_NonNilFieldsCopiedNilDropped ==
  request # <<>> =>
    LET extraFields == request.extraFields
        reqInfo == request.requestInfo IN
    /\ \A k \in DOMAIN extraFields \ ReservedNames :
         IF extraFields[k] = "nil"
         THEN k \notin DOMAIN reqInfo
         ELSE k \in DOMAIN reqInfo /\ reqInfo[k] = extraFields[k]
    /\ \A k \in DOMAIN reqInfo : reqInfo[k] # "nil"
    /\ DOMAIN reqInfo \subseteq DOMAIN extraFields \cup ReservedNames
    /\ \A k \in DOMAIN GetRequestInfo(request.fields)
                 \ (ReservedNames \cup {"ConversationState"}) :
         extraFields[k] = request.fields[k]

C21_Witness ==
  /\ request # <<>> /\ request.fields = OwnFields
  /\ OwnFields["UnitPreference"] = "nil"
  /\ "UnitPreference" \notin DOMAIN request.requestInfo
  /\ "Latitude" \in DOMAIN request.requestInfo
  /\ request.requestInfo["Latitude"] = "37.4"

(***************************************************************************)
(* C22.  A built request has one time stamp: the second that is signed in  *)
(* the message of the HMAC, the second in the Hound-Client-Authentication  *)
(* header and the TimeStamp of the request info that is sent are the same, *)
(* also when the caller's fields have a TimeStamp of their own.            *)
(***************************************************************************)
\* the request info as it is sent: the header, or the body
SentRequestInfo ==
  IF "Hound-Request-Info" \in DOMAIN request.Header
  THEN request.Header["Hound-Request-Info"]
  ELSE request.Body

C22_OneTimeStamp ==
  request # <<>> =>
    \E t \in Times, key \in ClientKeys :
      /\ request.Header["Hound-Client-Authentication"] =
           ClientID \o ";" \o ToString(t) \o ";"
             \o Signature(unescapeBase64Url(key),
                          UserID \o ";" \o RequestID \o ToString(t))
      /\ request.requestInfo["TimeStamp"] = ToString(t)
      /\ request.auth.timeStamp = t
      /\ SentRequestInfo = Marshal(request.requestInfo)

C22_Witness ==
  /\ request # <<>> /\ request.fields = OwnFields
  /\ OwnFields["TimeStamp"] = "1"
  /\ request.auth.timeStamp = Now + 1
  /\ request.requestInfo["TimeStamp"] = ToString(Now + 1)

(***************************************************************************)
(* C23.  When BuildRequest fails, for the client key or for the request,   *)
(* TextSearch and VoiceSearch return an empty body and a non-nil error,    *)
(* and the stored conversation state is that of the call's beginning,      *)
(* whatever the request carries (a context, extra headers).                *)
(***************************************************************************)
C23_BuildFailureReturnsError ==
  exit = "build" =>
    /\ pc = "returned"
    /\ retBody = <<>> /\ retErr # <<>>
    /\ conversationState = before

(***************************************************************************)
(* C24.  Every built request has the headers User-Agent,                   *)
(* Hound-Client-Authentication and Hound-Request-Authentication, and the   *)
(* request info in exactly one place: in the header Hound-Request-Info     *)
(* when RequestInfoInBody is false; when it is true as the whole body,     *)
(* with the header Hound-Request-Info-Length that gives the length of the  *)
(* body.  No request has both headers.                                     *)
(***************************************************************************)
C24_OneRequestInfoEncoding ==
  request # <<>> =>
    LET Header == request.Header
        inHeader == "Hound-Request-Info" \in DOMAIN Header
        inBody == "Hound-Request-Info-Length" \in DOMAIN Header IN
    /\ { "User-Agent", "Hound-Client-Authentication", "Hound-Request-Authentication" }
         \subseteq DOMAIN Header
    /\ Header["User-Agent"] = SDKUserAgent
    /\ Header["Hound-Client-Authentication"] = request.auth.houndClientAuth
    /\ Header["Hound-Request-Authentication"] = request.auth.houndRequestAuth
    /\ inHeader # inBody
    /\ inBody = RequestInfoInBody
    /\ inHeader => /\ Header["Hound-Request-Info"] = Marshal(request.requestInfo)
                   /\ request.Body # Marshal(request.requestInfo)
    /\ inBody => /\ request.Body = Marshal(request.requestInfo)
                 /\ Header["Hound-Request-Info-Length"] = ToString(Len(request.Body))

C24_Witness ==
  /\ request # <<>> /\ RequestInfoInBody /\ exit = "body"
  /\ "Hound-Request-Info-Length" \in DOMAIN request.Header
  /\ "Hound-Request-Info" \notin DOMAIN request.Header
  /\ request.Body = Marshal(request.requestInfo)
  /\ request.fields = LanguageFields


(***************************************************************************)
(* C25.  For InputLanguageEnglishName and for InputLanguageIETFTag, a      *)
(* built request has the language header exactly when the caller's fields  *)
(* hold the field; the header has the field's value, and the request info  *)
(* still has the field with that value.                                    *)
(***************************************************************************)
C25_LanguageFieldsDuplicated ==
  request # <<>> =>
    \A input \in DOMAIN langHeaders :
      /\ langHeaders[input] \in DOMAIN request.Header <=> input \in DOMAIN request.fields
      /\ input \in DOMAIN request.fields =>
           /\ request.Header[langHeaders[input]] = request.fields[input]
           /\ input \in DOMAIN request.requestInfo
           /\ request.requestInfo[input] = request.fields[input]
           /\ SentRequestInfo = Marshal(request.requestInfo)

C25_Witness ==
  /\ request # <<>> /\ request.fields = TagOnly
  /\ request.Header["Hound-Input-Language-IETF-Tag"] = "en-GB"
  /\ "Hound-Input-Language-English-Name" \notin DOMAIN request.Header
  /\ request.requestInfo["InputLanguageIETFTag"] = "en-GB"


(***************************************************************************)
(* C26.  A step of a conversation-state helper, which is a step between    *)
(* calls that changes a field of the client, is one of: Enable or Disable, *)
(* which sets the tracking flag and leaves the stored state;               *)
(* ClearConversationState, after which GetConversationState returns nil,   *)
(* and SetConversationState(x), after which it returns x, both of which    *)
(* leave the flag.  No helper changes anything of a call, of the channel   *)
(* or of the last request.                                                 *)
(***************************************************************************)
HelperStep ==
  /\ pc = "idle" /\ pc' = "idle"
  /\ << enableConversationState, conversationState >>'
       # << enableConversationState, conversationState >>

C26_HelpersArePlainAccessors ==
  [][ HelperStep =>
        /\ \/ /\ enableConversationState' \in BOOLEAN
              /\ GetConversationState' = GetConversationState
           \/ /\ GetConversationState' = "nil"
              /\ enableConversationState' = enableConversationState
           \/ /\ \E x \in ConversationStates : GetConversationState' = x
              /\ enableConversationState' = enableConversationState
        /\ UNCHANGED << RequestInfoInBody, callVars, chanVars, fault, requestInfo, calls,
                        tracked, parsed, request, otherVars >> ]_vars

\* tracking was enabled for the last call and has been disabled since; the
\* state that call stored is still there
C26_Witness ==
  /\ pc = "idle" /\ calls > 0
  /\ tracked /\ ~enableConversationState
  /\ untouched
  /\ GetConversationState # "nil"


(***************************************************************************)
(* C27.  Two calls of generateAuthValues that succeed never have the same  *)
(* time stamp nor the same client-auth token, whatever their arguments:    *)
(* each call's time stamp differs from that of every earlier call.         *)
(***************************************************************************)
Succeeded(call) == call.result.returnErr = "nil"

C27_TokensSingleUse ==
  \A i, j \in DOMAIN auths :
    i < j /\ Succeeded(auths[i]) /\ Succeeded(auths[j]) =>
      /\ auths[i].result.timeStamp # auths[j].result.timeStamp
      /\ auths[i].result.houndClientAuth # auths[j].result.houndClientAuth


(***************************************************************************)
(* C28, as stated.  For two calls of generateAuthValues that succeed with  *)
(* the same client ID, client key and user ID: if their request IDs differ *)
(* or their time stamps differ, both their client-auth tokens and their    *)
(* request-auth tokens differ.                                             *)
(***************************************************************************)
SameClientAndUser(a, b) ==
  /\ Succeeded(a) /\ Succeeded(b)
  /\ a.clientID = b.clientID /\ a.clientKey = b.clientKey /\ a.userID = b.userID

C28_EitherChangeChangesBothTokens ==
  \A i, j \in DOMAIN auths :
    /\ SameClientAndUser(auths[i], auths[j])
    /\ \/ auths[i].requestID # auths[j].requestID
       \/ auths[i].result.timeStamp # auths[j].result.timeStamp
    => /\ auths[i].result.houndClientAuth # auths[j].result.houndClientAuth
       /\ auths[i].result.houndRequestAuth # auths[j].result.houndRequestAuth

(***************************************************************************)
(* C28, amended.  For two such calls: if their request IDs differ, both    *)
(* tokens differ; if their time stamps differ, their client-auth tokens    *)
(* differ, and their request-auth tokens are equal when the request IDs    *)
(* are, since the request-auth token holds no time stamp.                  *)
(***************************************************************************)
C28_RequestIDChangesBothTimeStampOne ==
  \A i, j \in DOMAIN auths :
    SameClientAndUser(auths[i], auths[j]) =>
      /\ auths[i].requestID # auths[j].requestID =>
           /\ auths[i].result.houndClientAuth # auths[j].result.houndClientAuth
           /\ auths[i].result.houndRequestAuth # auths[j].result.houndRequestAuth
      /\ auths[i].result.timeStamp # auths[j].result.timeStamp =>
           /\ auths[i].result.houndClientAuth # auths[j].result.houndClientAuth
           /\ auths[i].requestID = auths[j].requestID =>
                auths[i].result.houndRequestAuth = auths[j].result.houndRequestAuth

C28_Witness ==
  /\ Len(auths) = 2
  /\ SameClientAndUser(auths[1], auths[2])
  /\ auths[1].requestID = auths[2].requestID
  /\ auths[1].result.timeStamp # auths[2].result.timeStamp
  /\ auths[1].result.houndClientAuth # auths[2].result.houndClientAuth
  /\ auths[1].result.houndRequestAuth = auths[2].result.houndRequestAuth


(***************************************************************************)
(* C29.  Two calls of generateAuthValues with equal client ID, client key, *)
(* user ID and request ID that read the same time return the same tokens   *)
(* and the same error.  A call that succeeds returns the request-auth      *)
(* token userID;requestID and the client-auth token                        *)
(* clientID;timeStamp;signature, the signature being that of               *)
(* userID;requestID followed by the time stamp under the decoded key.      *)
(***************************************************************************)
SameArguments(a, b) ==
  /\ a.clientID = b.clientID /\ a.clientKey = b.clientKey
  /\ a.userID = b.userID /\ a.requestID = b.requestID

HasNone(input, chars) == \A i \in 1..Len(input) : input[i] \notin chars

C30_EscapeRoundTrip ==
  escaped # <<>> =>
    /\ escaped.fn = "unescapeBase64Url" /\ HasNone(escaped.input, { "+", "/" })
         => escaped.back = escaped.input
    /\ escaped.fn = "escapeBase64Url" /\ HasNone(escaped.input, { "-", "_" })
         => escaped.back = escaped.input

C30_Witness ==
  /\ escaped # <<>>
  /\ escaped.fn = "unescapeBase64Url"
  /\ escaped.input = << "_", "A", "-" >>
  /\ escaped.output = << "/", "A", "+" >>
  /\ escaped.back = escaped.input


(***************************************************************************)
(* C31.  A request that NewRequest returns has the method POST.  Its URL   *)
(* is, for a VoiceRequest, the request's URL, and for a TextRequest the    *)
(* request's URL followed by ?query= and the escaped query, in which      *)
(* three characters stand for every space and every slash and which is the *)
(* query itself when it holds neither; the request's URL is the default of *)
(* its kind exactly when the URL given is empty.                           *)
(***************************************************************************)
DefaultURL(kind) == IF kind = "text" THEN houndifyTextURL ELSE houndifyVoiceURL

RECURSIVE Plain(_)
Plain(query) == IF query = <<>> THEN "" ELSE Head(query) \o Plain(Tail(query))

C31_NewRequestPostsToItsURL ==
  made # <<>> /\ made.result.err = "nil" =>
    LET req == made.result.req
        base == IF made.URL = "" THEN DefaultURL(made.kind) ELSE made.URL
        target == IF made.kind = "text"
                  THEN base \o "?query=" \o PathEscape(made.Query)
                  ELSE base IN
    /\ req.Method = "POST"
    /\ req.URL = target
    /\ Len(req.URL) = Len(base) + (IF made.kind = "text"
                                   THEN 7 + Len(PathEscape(made.Query)) ELSE 0)
    /\ HasNone(made.Query, { " ", "/" }) => PathEscape(made.Query) = Plain(made.Query)
    /\ Len(PathEscape(made.Query)) =
         Len(made.Query)
           + 2 * Cardinality({ i \in 1..Len(made.Query) : made.Query[i] \in { " ", "/" } })

C31_Witness ==
  /\ made # <<>> /\ made.kind = "text" /\ made.result.err = "nil"
  /\ made.URL = "http://test.com/v1"
  /\ made.Query = << "a", " ", "a" >>
  /\ made.result.req.URL = "http://test.com/v1?query=a%20a"
  /\ made.result.req.Method = "POST"


(***************************************************************************)
(* C32.  BuildRequest does not panic for a request whose RequestInfoFields *)
(* is nil, for any client key and in any second: it returns the error of   *)
(* the client key or a request.  The request info of that request holds    *)
(* every field that the SDK sets, with the SDK's value, and besides these  *)
(* only the conversation state.                                            *)
(***************************************************************************)
C32_NilFieldsBuildRequest ==
  /\ \A key \in ClientKeys, now \in Times :
       BuildRequest(NilMap, Client(key), now).err \in { "nil", "failed to decode client key" }
  /\ request # <<>> /\ request.fields = NilMap =>
       /\ ReservedNames \subseteq DOMAIN request.requestInfo
       /\ DOMAIN request.requestInfo \subseteq ReservedNames \cup { "ConversationState" }
       /\ request.requestInfo["ClientID"] = ClientID
       /\ request.requestInfo["RequestID"] = RequestID
       /\ request.requestInfo["TimeStamp"] = ToString(request.auth.timeStamp)
       /\ request.requestInfo["SDK"] = "Go"
       /\ SentRequestInfo = Marshal(request.requestInfo)

C32_Witness ==
  /\ request # <<>> /\ request.fields = NilMap
  /\ pc = "returned" /\ exit = "body"
  /\ ReservedNames \subseteq DOMAIN request.requestInfo


(***************************************************************************)
(* C33.  In StreamAudio, with every goroutine scheduled: once the consumer *)
(* has received a partial transcript that is safe to stop at, the writer   *)
(* ends (it stops writing and closes the pipe) and the consumer's send on  *)
(* done completes, so that the consumer ends too.                          *)
(***************************************************************************)
C33_EarlyCancellationCompletes ==
  SafeToStop ~> (writer = "ended" /\ consumer = "ended")


(***************************************************************************)
(* C34.  The PartialTranscript of every delivery goroutine, and every one  *)
(* the consumer has received, has the fields of the line the goroutine was *)
(* started for: Message is the line's PartialTranscript, Duration its      *)
(* DurationMS in milliseconds, Done its Done, and SafeToStopAudio is nil   *)
(* exactly when the line has no such member and the member's value         *)
(* otherwise.  What was received is what the completed deliveries' own     *)
(* lines hold, each once.                                                  *)
(***************************************************************************)
\* the texts of the lines that the deliveries were started for, in the
\* order of the deliveries (<<>> where no line starts)
OwnLines ==
  LET ls == LinesOf(served)
      at == [ k \in 1..Len(ls) |-> ls[k].at ] IN
  [ i \in 1..Len(deliveries) |->
      IF \E k \in 1..Len(ls) : at[k] = deliveries[i].line
      THEN ls[CHOOSE k \in 1..Len(ls) : at[k] = deliveries[i].line].text
      ELSE <<>> ]

CarriesLine(m, l) ==
  LET obj == Json[l[1]]
      ms == obj["DurationMS"] IN
  /\ m.Message = obj["PartialTranscript"]
  /\ m.Done = obj["Done"]
  /\ m.Duration[1] * 1000 + m.Duration[2] \div 1000000 = ms[1]
  /\ (m.Duration[2] % 1000000) * 1000 + m.Duration[3] \div 1000000 = ms[2]
  /\ m.Duration[3] % 1000000 = 0
  /\ m.SafeToStopAudio = "nil" <=> "SafeToStopAudio" \notin DOMAIN obj
  /\ "SafeToStopAudio" \in DOMAIN obj =>
       m.SafeToStopAudio = (IF obj["SafeToStopAudio"] THEN "true" ELSE "false")

C34_PartialCarriesItsOwnLine ==
  deliveries # <<>> =>
    LET own == OwnLines IN
    /\ \A i \in 1..Len(deliveries) :
         /\ IsPartialLine(own[i])
         /\ CarriesLine(deliveries[i].msg, own[i])
    /\ \A k \in 1..Len(received) :
         Count(received, received[k])
           = Cardinality({ i \in 1..Len(deliveries) :
                             /\ deliveries[i].at \in { "done", "end" }
                             /\ CarriesLine(received[k], own[i]) })

C34_Witness ==
  /\ Len(received) = 2
  /\ received[1].Message = "what" /\ received[1].SafeToStopAudio = "nil"
  /\ ~received[1].Done /\ received[1].Duration = << 0, 0, 500000000 >>
  /\ received[2].Message = "what time" /\ received[2].SafeToStopAudio = "true"
  /\ received[2].Done /\ received[2].Duration = << 0, 1, 200000000 >>
  /\ \E i \in 1..Len(deliveries) : deliveries[i].at = "send"


(***************************************************************************)
(* C35.  When the read loop of VoiceSearch ends with io.EOF and VoiceSearch *)
(* returns, the body it returns is what stands behind the last newline of  *)
(* the response, without the white space around it, and nothing else:      *)
(* whatever the lines before it are, whatever that text is, and with or    *)
(* without an error.                                                       *)
(***************************************************************************)
C35_BodyAtEOFIsTheTail ==
  (pc = "returned" /\ exit = "EOF") =>
    /\ retBody = TrimSpace(TailOf(served))
    /\ unread = <<>>
    /\ served # <<>> /\ served[Len(served)] = NL => retBody = <<>>

\* a text that is no JSON, behind a partial transcript, is returned with no
\* error
C35_Witness ==
  /\ pc = "returned" /\ exit = "EOF"
  /\ served = << "PA", NL, Junk >>
  /\ retBody = << Junk >> /\ retErr = <<>>
  /\ Len(deliveries) = 1


(***************************************************************************)
(* C36.  A call of VoiceSearch leaves the Client's RequestInfoInBody false,*)
(* whatever it was and however the call ends, and a request it builds has  *)
(* the request info in the header Hound-Request-Info, no header            *)
(* Hound-Request-Info-Length, and the audio stream as its body.  A call of *)
(* TextSearch leaves the flag as it is and encodes the request info by it: *)
(* the flag is false from a VoiceSearch on until the caller sets it again, *)
(* and a TextSearch in that time puts the request info into the header.    *)
(***************************************************************************)
\* a step in which VoiceSearch is called: it comes to its read loop, or it
\* returns or panics before, and its deferred function has run
VoiceSearchCalled ==
  pc = "idle" /\ (pc' = "reading" \/ (pc' # "idle" /\ closer' = "waiting"))

\* a step in which TextSearch is called, from its call to its return
TextSearchCalled == pc = "idle" /\ pc' \in { "returned", "panicked" } /\ closer' = "none"

\* the call of this step has built a request
BuiltRequest == pc' = "reading" \/ exit' \in { "transport", "read error", "body" }

\* the request info is in the header of the request (C24 has what it is)
RequestInfoInHeader(req) ==
  /\ "Hound-Request-Info" \in DOMAIN req.Header
  /\ "Hound-Request-Info-Length" \notin DOMAIN req.Header
  /\ req.Header["Hound-Request-Info"] # ""

C36_VoiceSearchResetsRequestInfoInBody ==
  [][ /\ VoiceSearchCalled =>
           /\ RequestInfoInBody' = FALSE
           /\ BuiltRequest => RequestInfoInHeader(request') /\ request'.Body = "AudioStream"
      /\ TextSearchCalled =>
           /\ UNCHANGED RequestInfoInBody
           /\ BuiltRequest =>
                IF RequestInfoInBody
                THEN /\ request'.Body \notin { "", "AudioStream" }
                     /\ "Hound-Request-Info" \notin DOMAIN request'.Header
                     /\ "Hound-Request-Info-Length" \in DOMAIN request'.Header
                ELSE RequestInfoInHeader(request') /\ request'.Body = ""
      /\ RequestInfoInBody' # RequestInfoInBody =>
           \/ VoiceSearchCalled
           \/ pc = "idle" /\ pc' = "idle" /\ RequestInfoInBody'
    ]_vars

\* the second call of a client is a TextSearch, after a VoiceSearch: its
\* request has the request info in the header
C36_Witness ==
  /\ calls = 1 /\ earlier = "voice"
  /\ pc = "returned" /\ exit = "body" /\ closer = "none"
  /\ ~RequestInfoInBody
  /\ RequestInfoInHeader(request) /\ request.Body = ""
  /\ request.fields = OwnFields


(***************************************************************************)
(* C38.  When BuildRequest has built a request from a mapping of the       *)
(* caller, that mapping has afterwards the members it had and the members  *)
(* TimeStamp and ConversationState; TimeStamp is the time stamp of this    *)
(* request and ConversationState what the client sends for this request,   *)
(* whatever they were; every other member has the value it had; and the    *)
(* other fields the SDK sets are in the mapping only if the caller put     *)
(* them there, while the request info has them with the SDK's values.      *)
(***************************************************************************)
\* the caller's RequestInfoFields after the call: GetRequestInfo returns the
\* map itself, so what BuildRequest assigns to reqInfo is assigned to it; a
\* nil RequestInfoFields stays nil, the map made for it is BuildRequest's own
CallersFields ==
  IF request.fields = NilMap THEN NilMap ELSE request.extraFields

AssignedFields == { "TimeStamp", "ConversationState" }

C38_TwoFieldsWrittenToCallersMapping ==
  (request # <<>> /\ request.fields # NilMap) =>
    /\ DOMAIN CallersFields = DOMAIN request.fields \cup AssignedFields
    /\ \A k \in DOMAIN request.fields \ AssignedFields : CallersFields[k] = request.fields[k]
    /\ CallersFields["TimeStamp"] = ToString(request.auth.timeStamp)
    /\ CallersFields["ConversationState"] = (IF tracked THEN before ELSE "nil")
    /\ \A k \in ReservedNames \ AssignedFields :
         /\ k \in DOMAIN CallersFields <=> k \in DOMAIN request.fields
         /\ k \in DOMAIN request.requestInfo
         /\ k \in { "ClientID", "RequestID" }
              => request.requestInfo[k] = (IF k = "ClientID" THEN ClientID ELSE RequestID)

\* a mapping that comes with a TimeStamp, a ConversationState and an SDK of
\* its own, used for a request of a client that tracks the conversation
C38_Witness ==
  /\ request # <<>> /\ request.fields = OwnFields
  /\ tracked /\ before = "cs0"
  /\ request.auth.timeStamp = Now + 1
  /\ OwnFields["TimeStamp"] = "1" /\ OwnFields["ConversationState"] = "mine"
  /\ CallersFields["TimeStamp"] = ToString(Now + 1)
  /\ CallersFields["ConversationState"] = "cs0"
  /\ CallersFields["SDK"] = "Rust" /\ request.requestInfo["SDK"] = "Go"
  /\ CallersFields["Latitude"] = "37.4" /\ CallersFields["UnitPreference"] = "nil"


(***************************************************************************)
(* C37.  The consumer of StreamAudio receives no more once it has received *)
(* a partial transcript that is safe to stop at.  From then on:            *)
(*  - VoiceSearch still returns;                                           *)
(*  - nothing more is received, and a delivery goroutine that is at its    *)
(*    send stays there;                                                    *)
(*  - the delivery goroutines have all ended only if the consumer has      *)
(*    received every partial transcript that was dispatched;               *)
(*  - the channel is not closed as long as a delivery goroutine is at its  *)
(*    send, which is for ever.                                             *)
(* As stated, the channel is never closed after the consumer has stopped.  *)
(* That fails when no delivery is left: when the consumer has received     *)
(* every partial transcript of the response, the deliveries end, the wait  *)
(* of the closing goroutine returns and the channel is closed.             *)
(***************************************************************************)
\* the consumer has stopped receiving: it is on its way to the send on done,
\* in it, or has returned
Stopped == SafeToStop

\* a delivery goroutine is blocked in its send
Pending == \E i \in 1..Len(deliveries) : deliveries[i].at = "send"

StillReturns == Stopped ~> (pc = "returned")

StaysBlocked ==
  [][ Stopped =>
        /\ received' = received
        /\ \A i \in 1..Len(deliveries) :
             deliveries[i].at = "send" => deliveries'[i].at = "send"
    ]_vars

AllEndedOnlyIfAllReceived ==
  (\A i \in 1..Len(deliveries) : deliveries[i].at = "end")
     => Len(received) = Len(deliveries)

C37_NeverClosedAfterConsumerStops ==
  /\ StillReturns
  /\ StaysBlocked
  /\ [](Stopped => closes = 0)
  /\ []AllEndedOnlyIfAllReceived

C37_NotClosedWhileADeliveryIsBlocked ==
  /\ StillReturns
  /\ StaysBlocked
  /\ []((Stopped /\ Pending) => (closes = 0 /\ closer \in { "none", "waiting" }))
  /\ (Stopped /\ pc = "returned" /\ ~Pending) ~> (closes = 1)
  /\ []AllEndedOnlyIfAllReceived

\* VoiceSearch has returned; the consumer stopped at the second partial
\* transcript, and the delivery of the third, dispatched after it, is at its
\* send, with the closing goroutine waiting
C37_Witness ==
  /\ pc = "returned" /\ retErr = <<>>
  /\ Stopped /\ consumer = "ended" /\ writer = "ended"
  /\ Len(received) = 2 /\ Len(deliveries) = 3
  /\ deliveries[3].at = "send"
  /\ closer = "waiting" /\ closes = 0 /\ partialChanWait = 1

=============================================================================
